---- MODULE Spec2Model ----
(***************************************************************************)
(* A model of the Near Discord bot (src/bot.py, with the older split of    *)
(* the same program in src/nears_brain.py and src/nears_discord_wiring.py):*)
(* the code-fence aware message splitter, the bounded per-channel history, *)
(* the per-channel asyncio locks, the reply handlers and the speed duel.   *)
(*                                                                         *)
(* Text is modelled as a sequence of characters, so that                    *)
(* splitlines, strip, startswith and the length arithmetic of the code are *)
(* computed and not assumed.                                               *)
(***************************************************************************)
EXTENDS Integers, Sequences, FiniteSets, TLC

VARIABLES
    text,               \* split_into_messages: the argument text
    max_len,            \* split_into_messages: the argument max_len
    parts,              \* split_into_messages: the returned list
    split_pc,           \* "idle" | "input" | "returned"
    history_by_channel, \* channel -> list of turns {role, content}
    appended,           \* channel -> every turn ever appended, in order
    locks_by_channel,   \* channel -> asyncio.Lock (NoLock before creation)
    tasks,              \* the handler invocations, in the order of arrival
    outbox,             \* channel -> the messages sent to it, in call order
    leaderboard,        \* near_leaderboard.json: guild key -> user -> entry
    env,                \* the inputs the environment may still deliver
    call                \* a call of a function checked on its own

splitVars == <<text, max_len, parts, split_pc, call>>

histVars == <<history_by_channel, appended>>

botVars == <<locks_by_channel, tasks, outbox, leaderboard, env>>

vars == <<text, max_len, parts, split_pc, history_by_channel, appended,
          locks_by_channel, tasks, outbox, leaderboard, env, call>>

----------------------------------------------------------------------------
(* Characters and the string operations of Python the code relies on.      *)

NL == "\n"
\* the backquote character (the string lexer has no backquote)
BT == "BQ"
SP == " "

\* three backquotes, the fence marker, as a character sequence
FENCE == <<BT, BT, BT>>

\* str.isspace for the characters of the model
IsSpace(c) == c \in {SP, NL}

\* s[i:] with a 1-based i
Drop(s, i) == IF i > Len(s) THEN <<>> ELSE SubSeq(s, i, Len(s))

\* str.startswith
StartsWith(s, p) == Len(s) >= Len(p) /\ SubSeq(s, 1, Len(p)) = p

\* str.endswith
EndsWith(s, p) ==
    Len(s) >= Len(p) /\ SubSeq(s, Len(s) - Len(p) + 1, Len(s)) = p

RECURSIVE LStrip(_)
\* str.lstrip()
LStrip(s) ==
    IF s # <<>> /\ IsSpace(s[1]) THEN LStrip(Tail(s)) ELSE s

RECURSIVE RStrip(_)
\* str.rstrip()
RStrip(s) ==
    IF s # <<>> /\ IsSpace(s[Len(s)]) THEN RStrip(SubSeq(s, 1, Len(s) - 1)) ELSE s

\* str.strip()
Strip(s) == LStrip(RStrip(s))

RECURSIVE RStripNL(_)
\* str.rstrip("\n")
RStripNL(s) ==
    IF s # <<>> /\ s[Len(s)] = NL THEN RStripNL(SubSeq(s, 1, Len(s) - 1)) ELSE s

RECURSIVE SplitLinesFrom(_, _, _)
SplitLinesFrom(s, i, cur) ==
    IF i > Len(s)
    THEN IF cur = <<>> THEN <<>> ELSE <<cur>>
    ELSE IF s[i] = NL
         THEN <<cur>> \o SplitLinesFrom(s, i + 1, <<>>)
         ELSE SplitLinesFrom(s, i + 1, Append(cur, s[i]))

\* str.splitlines() for texts whose only line break is "\n": no empty last
\* line after a final line break
SplitLines(s) == SplitLinesFrom(s, 1, <<>>)

----------------------------------------------------------------------------
(* split_into_messages (src/bot.py 226-278, the same text in               *)
(* src/nears_brain.py 89-141).                                             *)

\* the local variables before the loop
SplitInit ==
    [parts |-> <<>>, current |-> <<>>, current_len |-> 0,
     in_code |-> FALSE, current_fence |-> <<>>]

\* "if current_len + len(line_str) > max_len and current:"
MustFlush(st, line_str, maxLen) ==
    st.current_len + Len(line_str) > maxLen /\ st.current # <<>>

\* the body of the flush branch: close the block, emit, reopen
Flush(st) ==
    LET closeIt == st.in_code /\ ~EndsWith(RStrip(st.current), FENCE)
        cur1    == IF closeIt THEN st.current \o FENCE \o <<NL>> ELSE st.current
        reopen  == st.in_code /\ st.current_fence # <<>>
        cur2    == IF reopen THEN st.current_fence \o <<NL>> ELSE <<>>
    IN  [st EXCEPT !.parts = Append(st.parts, RStripNL(cur1)),
                   !.current = cur2,
                   !.current_len = Len(cur2)]

\* "handle fence toggling AFTER possible split"
Toggle(st, stripped) ==
    IF ~StartsWith(stripped, FENCE) THEN st
    ELSE IF ~st.in_code
         THEN [st EXCEPT !.in_code = TRUE, !.current_fence = stripped]
         ELSE [st EXCEPT !.in_code = FALSE, !.current_fence = <<>>]

\* an iteration that adds the line to the chunk twice
SplitStepTwice(st, line, maxLen) ==
    LET line_str == line \o <<NL>>
        stripped == Strip(line)
        st1 == IF MustFlush(st, line_str, maxLen) THEN Flush(st) ELSE st
        st2 == Toggle(st1, stripped)
    IN  [st2 EXCEPT !.current = st2.current \o line_str \o line_str,
                    !.current_len = st2.current_len + Len(line_str)]

\* one iteration of "for line in lines"
SplitStep(st, line, maxLen) ==
    LET line_str == line \o <<NL>>
        stripped == Strip(line)
        st1 == IF MustFlush(st, line_str, maxLen) THEN Flush(st) ELSE st
        st2 == Toggle(st1, stripped)
    IN  [st2 EXCEPT !.current = st2.current \o line_str,
                    !.current_len = st2.current_len + Len(line_str)]

RECURSIVE SplitLoop(_, _, _, _)
SplitLoop(st, lines, i, maxLen) ==
    IF i > Len(lines) THEN st
    ELSE SplitLoop(SplitStep(st, lines[i], maxLen), lines, i + 1, maxLen)

\* SplitFinish without the final rstrip("\n")
SplitFinishNoRStrip(st) ==
    IF Strip(st.current) = <<>> THEN st.parts
    ELSE LET closeIt == st.in_code /\ ~EndsWith(RStrip(st.current), FENCE)
             cur1 == IF closeIt THEN st.current \o FENCE \o <<NL>> ELSE st.current
         IN  Append(st.parts, cur1)

\* the code after the loop: the last chunk
SplitFinish(st) ==
    IF Strip(st.current) = <<>> THEN st.parts
    ELSE LET closeIt == st.in_code /\ ~EndsWith(RStrip(st.current), FENCE)
             cur1 == IF closeIt THEN st.current \o FENCE \o <<NL>> ELSE st.current
         IN  Append(st.parts, RStripNL(cur1))

split_into_messages(t, maxLen) ==
    SplitFinish(SplitLoop(SplitInit, SplitLines(t), 1, maxLen))

----------------------------------------------------------------------------
(* The module-level state of src/bot.py 113-114 and the leaderboard file.  *)

Channels == {1, 2}

\* the ids of the members who write in the channels
Users == {11, 12}

\* member.display_name
DisplayName(u) == IF u = 11 THEN "Am" ELSE "Jacob"

\* the guild of every channel (message.guild.id)
GuildOf(c) == 7

\* "str(guild_id) if guild_id is not None else "global""
NoGuild == 0
GuildKey(guild_id) == IF guild_id = NoGuild THEN "global" ELSE ToString(guild_id)

GuildKeys == { GuildKey(GuildOf(c)) : c \in Channels } \cup {"global"}

\* the registry entry of a channel whose lock get_channel_lock has not
\* created yet (locks_by_channel.get(channel_id) is None)
NoLock == [exists |-> FALSE, locked |-> FALSE, waiters |-> <<>>, id |-> 0]

\* the environment delivers nothing
NoInputs == [chans |-> {}, users |-> {}, n |-> 0, near |-> 0, duel |-> 0,
             riddle |-> 0, other |-> 0, bot |-> 0]

\* no call of a function on its own
NoCall == [op |-> "none"]

\* no call of the splitter is modelled
SplitIdle ==
    /\ text = <<>>
    /\ max_len = 0
    /\ parts = <<>>
    /\ split_pc = "idle"
    /\ call = NoCall

\* the state when the module has been loaded: empty registries, no handler
\* running, nothing sent, no leaderboard file
BotFresh ==
    /\ history_by_channel = [c \in Channels |-> <<>>]
    /\ appended = [c \in Channels |-> <<>>]
    /\ locks_by_channel = [c \in Channels |-> NoLock]
    /\ tasks = <<>>
    /\ outbox = [c \in Channels |-> <<>>]
    /\ leaderboard = <<>>

----------------------------------------------------------------------------
(* The channel history (src/bot.py 125-145, 679-681, 723-725, 886-890).    *)

\* "keep last 40 entries"
HistoryLimit == 40

\* history[-40:] when len(history) > 40, else history itself
LastEntries(history) ==
    IF Len(history) > HistoryLimit
    THEN SubSeq(history, Len(history) - HistoryLimit + 1, Len(history))
    ELSE history

\* the turn add_message_to_history stores for a message
ContextTurn(user_name, txt) ==
    [role |-> "system", content |-> <<"[Context]", user_name, "said:", txt>>]

AssistantTurn(txt) == [role |-> "assistant", content |-> txt]

\* an add_message_to_history that records nothing
add_message_to_historyNothing(history, user_name, txt) == LastEntries(history)

\* an add_message_to_history that stores the message as a user turn
add_message_to_historyAsUser(history, user_name, txt) ==
    LastEntries(Append(history,
        [role |-> "user", content |-> <<user_name, ":", SP>> \o txt]))

\* add_message_to_history: the new value of history_by_channel[channel_id]
add_message_to_history(history, user_name, txt) ==
    LastEntries(Append(history, ContextTurn(user_name, txt)))

\* a get_near_reply that does not store its reply
get_near_reply_historyNoAppend(history, reply_text) == LastEntries(history)

\* a get_near_reply that stores its reply over the list it read when the
\* request was recorded, without the entries added since
get_near_reply_historyStale(history, reply_text) ==
    LET starts == { i \in 1..Len(history) :
                      /\ history[i].role = "system"
                      /\ i = 1 \/ history[i - 1].role # "system" }
        own == IF starts = {} THEN 0
               ELSE CHOOSE i \in starts : \A k \in starts : k <= i
    IN  Append(LastEntries(SubSeq(history, 1, own)), AssistantTurn(reply_text))

\* get_near_reply, its effect on the history: the list is cut to 40 before
\* the model call and the reply is appended after it, with no cut
get_near_reply_history(history, reply_text) ==
    Append(LastEntries(history), AssistantTurn(reply_text))

\* the "n riddle" branch of on_message: append the riddle, then cut to 40
riddle_history(history, riddle_text) ==
    LastEntries(Append(history, AssistantTurn(riddle_text)))

----------------------------------------------------------------------------
(* The history on its own: the three blocks of code that append to it, each *)
(* of which runs without an await, applied in any order to one channel.     *)

MaxAppends == 43
MaxHistReplies == 2
MaxHistRiddles == 1

\* the channel the appends of SpecHistory are made on
HistChannel == 1

NumAppended == Len(appended[HistChannel])

CountRole(log, kind) ==
    Cardinality({ i \in 1..Len(log) : log[i].content[1] = kind })

InitHistory ==
    /\ SplitIdle
    /\ BotFresh
    /\ env = NoInputs

\* add_message_to_history(channel_id, user_name, text); the text is numbered
\* so that every appended turn is distinct, and one author writes them all
HistAddMessage ==
    /\ NumAppended < MaxAppends
    /\ LET c == HistChannel
           u == DisplayName(11)
           t == NumAppended + 1
       IN  /\ history_by_channel' =
                [history_by_channel EXCEPT
                    ![c] = add_message_to_history(@, u, t)]
           /\ appended' = [appended EXCEPT ![c] = Append(@, ContextTurn(u, t))]
    /\ UNCHANGED <<splitVars, botVars>>

\* get_near_reply(channel_id, ...), as far as the history goes
HistGetNearReply ==
    /\ NumAppended < MaxAppends
    /\ CountRole(appended[HistChannel], "reply") < MaxHistReplies
    /\ LET c == HistChannel
           r == <<"reply", NumAppended + 1>>
       IN  /\ history_by_channel' =
                [history_by_channel EXCEPT ![c] = get_near_reply_history(@, r)]
           /\ appended' = [appended EXCEPT ![c] = Append(@, AssistantTurn(r))]
    /\ UNCHANGED <<splitVars, botVars>>

\* the riddle append of on_message
HistRiddle ==
    /\ NumAppended < MaxAppends
    /\ CountRole(appended[HistChannel], "riddle") < MaxHistRiddles
    /\ LET c == HistChannel
           r == <<"riddle", NumAppended + 1>>
       IN  /\ history_by_channel' =
                [history_by_channel EXCEPT ![c] = riddle_history(@, r)]
           /\ appended' = [appended EXCEPT ![c] = Append(@, AssistantTurn(r))]
    /\ UNCHANGED <<splitVars, botVars>>

NextHistory ==
    \/ HistAddMessage
    \/ HistGetNearReply
    \/ HistRiddle

SpecHistory == InitHistory /\ [][NextHistory]_vars

\* the last n entries of a list (all of it when it is shorter)
LastN(log, n) == IF Len(log) > n THEN SubSeq(log, Len(log) - n + 1, Len(log)) ELSE log

\* C1: after any sequence of add_message_to_history calls, get_near_reply
\* calls and riddle appends, the history of a channel holds at most 40
\* turns, and they are the 40 most recently appended turns in their order.
C1_HistoryBounded ==
    \A c \in Channels :
        /\ Len(history_by_channel[c]) <= HistoryLimit
        /\ history_by_channel[c] = LastN(appended[c], HistoryLimit)

----------------------------------------------------------------------------
(* asyncio.Lock and the lock registry (src/bot.py 113-122).                *)
(* A lock is its _locked flag and its FIFO queue of waiters.  acquire takes *)
(* a free lock with no waiter at once, without suspending; otherwise the    *)
(* caller queues.  release clears the flag and wakes the first waiter,      *)
(* which stays in the queue until it runs again and then sets the flag, so  *)
(* that no later caller can overtake it.                                    *)

\* asyncio.Lock(): a new object, free and with no waiter; id tells the
\* objects apart, and the next object has an id none had before
FreshId(locks) ==
    1 + (CHOOSE m \in { locks[c].id : c \in DOMAIN locks } :
            \A c \in DOMAIN locks : locks[c].id <= m)

NewLock(locks) ==
    [exists |-> TRUE, locked |-> FALSE, waiters |-> <<>>, id |-> FreshId(locks)]

\* a get_channel_lock that makes a new lock on every call
get_channel_lockAnew(locks, c) == [locks EXCEPT ![c] = NewLock(locks)]

\* get_channel_lock: the registry after the call (the lock is created on the
\* first call for the channel and never replaced)
get_channel_lock(locks, c) ==
    IF ~locks[c].exists THEN [locks EXCEPT ![c] = NewLock(locks)] ELSE locks

\* a lock that excludes nobody
CanAcquireAlways(lock) == TRUE

\* asyncio.Lock.acquire, the test of its fast path
CanAcquire(lock) == ~lock.locked /\ lock.waiters = <<>>

\* "async with lock" entered by task h: the lock taken, or h queued
Acquire(locks, c, h) ==
    LET ls == get_channel_lock(locks, c)
    IN  IF CanAcquire(ls[c])
        THEN [ls EXCEPT ![c].locked = TRUE]
        ELSE [ls EXCEPT ![c].waiters = Append(@, h)]

\* asyncio.Lock.release: the flag cleared; the first waiter is woken (see
\* Woken) and stays in the queue
Release(locks, c) == [locks EXCEPT ![c].locked = FALSE]

\* the woken waiter runs again: it leaves the queue and sets the flag
TakeOver(locks, c) ==
    [locks EXCEPT ![c].locked = TRUE, ![c].waiters = Tail(@)]

\* task h waits in "async with lock" and has been woken by a release
Woken(h) ==
    /\ tasks[h].pc = "lock_wait"
    /\ LET lock == locks_by_channel[tasks[h].chan]
       IN  lock.exists /\ ~lock.locked
           /\ lock.waiters # <<>> /\ Head(lock.waiters) = h

----------------------------------------------------------------------------
(* The handlers (src/bot.py 751-778, 849-958).  A task is one invocation of *)
(* on_message or near_cmd; pc is the await at which it is suspended.  The   *)
(* code between two awaits runs as one step: the event loop switches tasks  *)
(* only at an await, and the calls of the OpenAI client are synchronous.    *)

TaskIds == 1..Len(tasks)

\* the most chunks split_into_messages cuts a reply into
MaxChunks == 2

\* what the model call of get_near_reply returns: a text of some number of
\* chunks, or an exception (the fallback text is one chunk)
ReplyOutcomes ==
    { [ok |-> TRUE, chunks |-> n] : n \in 1..MaxChunks }
        \cup { [ok |-> FALSE, chunks |-> 1] }

\* the locals of run_speedduel, and what the model remembers of a duel:
\* graded holds the guesses wait_for returned, awards the points given, late
\* counts the correct guesses that arrived after a round had concluded,
\* ignored tells that check turned a message down while wait_for was pending
NoGuess == [author |-> 0, bot |-> FALSE, chan |-> 0, content |-> <<>>]

NoDuel ==
    [round |-> 0, answer |-> <<>>, scores |-> <<>>, timer |-> 0, elapsed |-> 0,
     guess_msg |-> NoGuess, graded |-> {}, awards |-> <<>>, late |-> 0,
     ignored |-> FALSE]

NewTask(kind, c, u) ==
    [kind |-> kind, chan |-> c, user |-> u, pc |-> "start",
     chunks |-> 0, sent |-> 0, d |-> NoDuel]

\* a message of channel c as the transport records it
Sent(h, kind, arg) == [from |-> h, kind |-> kind, arg |-> arg]

----------------------------------------------------------------------------
(* The leaderboard file (src/bot.py 15-65).                                *)

\* an entry that does not start from zero
NoEntryPlayed == [xp |-> 10, wins |-> 0, games |-> 1]

\* {"xp": 0, "wins": 0, "games": 0}
NoEntry == [xp |-> 0, wins |-> 0, games |-> 0]

\* update_leaderboard: the content of the file after the call (the file is
\* read, the guild's board updated for every user of scores, and written)
update_leaderboard(data, guild_id, scores, winners) ==
    LET gkey == GuildKey(guild_id)
        guild_board == IF gkey \in DOMAIN data THEN data[gkey] ELSE <<>>
        Entry(ukey) ==
            IF ukey \in DOMAIN guild_board THEN guild_board[ukey] ELSE NoEntry
        Updated(user_id) ==
            LET e == Entry(ToString(user_id))
                pts == scores[user_id]
            IN  [games |-> e.games + 1,
                 xp |-> e.xp + pts * 10 + (IF user_id \in winners THEN 20 ELSE 0),
                 wins |-> e.wins + (IF user_id \in winners THEN 1 ELSE 0)]
        keys == { ToString(u) : u \in DOMAIN scores }
        UserOf(ukey) == CHOOSE u \in DOMAIN scores : ToString(u) = ukey
        board == [k \in DOMAIN guild_board \cup keys |->
                     IF k \in keys THEN Updated(UserOf(k)) ELSE guild_board[k]]
    IN  [g \in DOMAIN data \cup {gkey} |-> IF g = gkey THEN board ELSE data[g]]

\* the file near_leaderboard.json: it is missing, or holds the JSON text of
\* data, or text that json.load does not accept
NoFile == [status |-> "missing", data |-> <<>>]
FileOf(data) == [status |-> "ok", data |-> data]
BrokenFile == [status |-> "malformed", data |-> <<>>]

\* load_leaderboard: {} when the file is missing or json.load raises
load_leaderboard(file) == IF file.status = "ok" THEN file.data ELSE <<>>

\* what the write of save_leaderboard does: it succeeds; open(..., "w")
\* raises; or open has truncated the file and json.dump raises
WriteOutcomes == { "written", "open_raises", "dump_raises" }

\* save_leaderboard: the file after the call; every exception is swallowed
save_leaderboard(file, data, w) ==
    IF w = "written" THEN FileOf(data)
    ELSE IF w = "open_raises" THEN file
    ELSE BrokenFile

\* update_leaderboard on the file: the file after the call and the board
\* returned
update_leaderboard_file(file, guild_id, scores, winners, w) ==
    LET data == update_leaderboard(load_leaderboard(file), guild_id, scores, winners)
    IN  [file |-> save_leaderboard(file, data, w),
         result |-> data[GuildKey(guild_id)]]

Min(a, b) == IF a < b THEN a ELSE b

\* format_leaderboard_for_guild (src/bot.py 68-107).  A board is listed as
\* the sequence of its items, in the order of the file (board.items()); an
\* item is a user id with the user's entry.

\* "No recorded games yet. Play n speedduel to begin."
NO_GAMES_TEXT == <<"No recorded games yet.">>

\* the first line of a listing
LEADERBOARD_HEADER == <<"Near's Long-Term Leaderboard">>

\* top_n: int = 10
DefaultTopN == 10

\* medal_map.get(idx, generic marker), idx counted from 0
Medal(idx) ==
    IF idx = 0 THEN "gold"
    ELSE IF idx = 1 THEN "silver"
    ELSE IF idx = 2 THEN "bronze"
    ELSE "dot"

\* an order of the entries that looks at the XP only
SortsBeforeByXp(a, b) == a.xp > b.xp

\* the key (xp, wins) of entry a is greater than the key of entry b
SortsBefore(a, b) == a.xp > b.xp \/ (a.xp = b.xp /\ a.wins > b.wins)

\* sorted(board.items(), key=(xp, wins), reverse=True): the sort is stable,
\* so an item goes behind the items before it whose key is not smaller
InsertSorted(sorted, item) ==
    LET k == Cardinality({ i \in 1..Len(sorted) :
                              ~SortsBefore(item.stats, sorted[i].stats) })
    IN  SubSeq(sorted, 1, k) \o <<item>> \o SubSeq(sorted, k + 1, Len(sorted))

RECURSIVE SortedItems(_)
SortedItems(items) ==
    IF items = <<>> THEN <<>>
    ELSE InsertSorted(SortedItems(SubSeq(items, 1, Len(items) - 1)),
                      items[Len(items)])

\* items[:top_n] for a top_n that is not negative
FirstItems(items, top_n) == SubSeq(items, 1, Min(top_n, Len(items)))

\* member.display_name if the guild has the member, else "User <uid>"
MemberName(guild_id, uid) ==
    IF guild_id # NoGuild /\ uid \in Users THEN <<DisplayName(uid)>>
    ELSE <<"User", uid>>

\* the text returned for the items of the guild's board
Listing(items, guild_id, top_n) ==
    IF items = <<>> THEN [text |-> NO_GAMES_TEXT, lines |-> <<>>]
    ELSE LET top == FirstItems(SortedItems(items), top_n)
         IN  [text |-> LEADERBOARD_HEADER,
              lines |-> [i \in 1..Len(top) |->
                           [medal |-> Medal(i - 1),
                            name |-> MemberName(guild_id, top[i].uid),
                            xp |-> top[i].stats.xp,
                            wins |-> top[i].stats.wins,
                            games |-> top[i].stats.games]]]

\* the ids of the users a board can hold
BoardUids == 11..22

\* board.items() of a board read from the file, in an order of the file
ItemsOf(board) ==
    LET uids == { u \in BoardUids : ToString(u) \in DOMAIN board }
        order == CHOOSE seq \in [1..Cardinality(uids) -> uids] :
                     \A i, j \in DOMAIN seq : i # j => seq[i] # seq[j]
    IN  [i \in DOMAIN order |-> [uid |-> order[i], stats |-> board[ToString(order[i])]]]

\* format_leaderboard_for_guild(guild, top_n) when the file holds data
format_leaderboard_for_guild(data, guild_id, top_n) ==
    LET gkey == GuildKey(guild_id)
    IN  Listing(IF gkey \in DOMAIN data THEN ItemsOf(data[gkey]) ELSE <<>>,
                guild_id, top_n)

----------------------------------------------------------------------------
(* Grading (src/bot.py 459-477, 560-565).                                  *)

\* the letters
UPPER == <<"A", "B", "C", "D", "E", "F", "G", "H", "I", "J", "K", "L", "M",
          "N", "O", "P", "Q", "R", "S", "T", "U", "V", "W", "X", "Y", "Z">>
LOWER == <<"a", "b", "c", "d", "e", "f", "g", "h", "i", "j", "k", "l", "m",
          "n", "o", "p", "q", "r", "s", "t", "u", "v", "w", "x", "y", "z">>

\* str.lower for one character
LowerChar(ch) ==
    IF \E i \in DOMAIN UPPER : UPPER[i] = ch
    THEN LOWER[CHOOSE i \in DOMAIN UPPER : UPPER[i] = ch]
    ELSE ch

\* a lower-casing that changes nothing
LowerNot(str) == str

Lower(str) == [i \in 1..Len(str) |-> LowerChar(str[i])]

\* a substring test that looks at the beginning of g only
ContainsAtStart(g, w) == Len(w) <= Len(g) /\ SubSeq(g, 1, Len(w)) = w

\* "w in g": w is a substring of g
Contains(g, w) ==
    \E i \in 1..(Len(g) - Len(w) + 1) : SubSeq(g, i, i + Len(w) - 1) = w

\* a.replace(",", " ")
CommasToBlanks(a) == [i \in 1..Len(a) |-> IF a[i] = "," THEN SP ELSE a[i]]

RECURSIVE SplitWordsFrom(_, _, _)
SplitWordsFrom(str, i, cur) ==
    IF i > Len(str)
    THEN IF cur = <<>> THEN <<>> ELSE <<cur>>
    ELSE IF IsSpace(str[i])
         THEN (IF cur = <<>> THEN <<>> ELSE <<cur>>)
                  \o SplitWordsFrom(str, i + 1, <<>>)
         ELSE SplitWordsFrom(str, i + 1, Append(cur, str[i]))

\* str.split(): the words between runs of whitespace
SplitWords(str) == SplitWordsFrom(str, 1, <<>>)

\* a grading without "if not answer: return False"
is_guess_correctNoEmptyTest(guess, answer) ==
    LET g == Lower(guess)
        a == Lower(answer)
        all == SplitWords(CommasToBlanks(a))
        words == { all[i] : i \in { j \in 1..Len(all) : Len(all[j]) >= 3 } }
    IN  IF words = {} THEN Contains(g, a)
        ELSE \A w \in words : Contains(g, w)

is_guess_correct(guess, answer) ==
    IF answer = <<>> THEN FALSE
    ELSE LET g == Lower(guess)
             a == Lower(answer)
             all == SplitWords(CommasToBlanks(a))
             words == { all[i] : i \in { j \in 1..Len(all) : Len(all[j]) >= 3 } }
         IN  IF words = {} THEN Contains(g, a)
             ELSE \A w \in words : Contains(g, w)

\* the command prefix "n "
PREFIX == <<"n", SP>>

\* a check that lets the messages of bots through
checkAnyAuthor(m, c) ==
    /\ m.chan = c
    /\ ~StartsWith(Lower(m.content), PREFIX)

\* check(m) of run_speedduel for the duel of channel c
check(m, c) ==
    /\ m.chan = c
    /\ ~m.bot
    /\ ~StartsWith(Lower(m.content), PREFIX)

----------------------------------------------------------------------------
(* run_speedduel (src/bot.py 522-664) under the lock of on_message          *)
(* (873-877).  pc of a duel: "intro" (the opening message is being sent),   *)
(* "posted" (a question is being sent), "await_answer" (bot.wait_for is     *)
(* pending), "got_guess" (wait_for has a message, the task has not run      *)
(* yet), "pause" (an announcement is being sent, then the sleep), "final"   *)
(* (the last message is being sent).                                        *)

\* a plan of two rounds
difficultiesTwoRounds == <<"easy", "medium">>

difficulties == <<"easy", "easy", "medium">>

\* "timeout=10" of bot.wait_for, in seconds
TimeoutSeconds == 10

\* the step of the model's clock, in seconds
TickSeconds == TimeoutSeconds \div 2

\* the clock of a round is read up to this many seconds
MaxElapsed == 2 * TimeoutSeconds

\* the canonical answers generate_cs_question returns: a phrase, or the
\* empty string (the model call failed or gave no answer line)
HASH == <<"h", "a", "s", "h">>
Answers == { HASH, <<>> }

\* what the players type
Guesses == { HASH, <<"n", "o">> }

ScoreOf(scores, u) == IF u \in DOMAIN scores THEN scores[u] ELSE 0

\* scores[winner.id] = scores.get(winner.id, 0) + 1
AddPoint(scores, u) ==
    [x \in DOMAIN scores \cup {u} |-> ScoreOf(scores, x) + (IF x = u THEN 1 ELSE 0)]

\* max(scores.values()) and the winners list
MaxScore(scores) ==
    CHOOSE m \in { scores[u] : u \in DOMAIN scores } :
        \A u \in DOMAIN scores : scores[u] <= m

\* a winners list that holds one of the players at the maximum only
WinnersOne(scores) ==
    { CHOOSE u \in DOMAIN scores : scores[u] = MaxScore(scores) }

Winners(scores) == { u \in DOMAIN scores : scores[u] = MaxScore(scores) }

\* wait_for is pending in duel t and its timeout has not been reached
Pending(t) == t.pc = "await_answer" /\ t.d.timer < TimeoutSeconds

\* a dispatch that gives the point of a concluded round a second time
DispatchScoresLate(t, m) ==
    IF t.kind # "speedduel" THEN t
    ELSE IF Pending(t)
         THEN IF check(m, t.chan)
              THEN [t EXCEPT !.pc = "got_guess", !.d.guess_msg = m]
              ELSE [t EXCEPT !.d.ignored = TRUE]
         ELSE IF t.pc = "pause" /\ check(m, t.chan)
                    /\ is_guess_correct(m.content, t.d.answer)
              THEN [t EXCEPT !.d.late = @ + 1,
                             !.d.scores = AddPoint(@, m.author)]
              ELSE t

\* the duel of task t after message m has been dispatched: a pending
\* wait_for returns m if its check accepts m and stays pending if not; at
\* any other time the duel does not see m
Dispatch(t, m) ==
    IF t.kind # "speedduel" THEN t
    ELSE IF Pending(t)
         THEN IF check(m, t.chan)
              THEN [t EXCEPT !.pc = "got_guess", !.d.guess_msg = m]
              ELSE [t EXCEPT !.d.ignored = TRUE]
         ELSE IF t.pc = "pause" /\ check(m, t.chan)
                    /\ is_guess_correct(m.content, t.d.answer)
              THEN [t EXCEPT !.d.late = @ + 1]
              ELSE t

\* the tasks after the "message" event of m has been dispatched
Received(ts, m) == [h \in DOMAIN ts |-> Dispatch(ts[h], m)]

\* the texts of the commands the members send: "N hash", "n speedduel",
\* "n riddle"
N_TEXT == <<"N", SP>> \o HASH
SPEEDDUEL_TEXT == PREFIX \o <<"speedduel">>
RIDDLE_TEXT == PREFIX \o <<"riddle">>

\* a message of a member
Message(c, u, content) ==
    [author |-> u, bot |-> FALSE, chan |-> c, content |-> content]

\* run_speedduel is entered with the lock held: the opening message
StartDuel(h, c) ==
    outbox' = [outbox EXCEPT ![c] = Append(@, Sent(h, "intro", 0))]

\* on_message for "n speedduel": the message is recorded and the lock taken
\* or waited for; with the lock the duel starts
OnMessageSpeedduel(c, u) ==
    /\ c \in env.chans /\ u \in env.users
    /\ env.duel > 0
    /\ LET h == Len(tasks) + 1
           t == ContextTurn(DisplayName(u), <<"n speedduel", h>>)
           got == CanAcquire(get_channel_lock(locks_by_channel, c)[c])
       IN  /\ history_by_channel' =
                 [history_by_channel EXCEPT
                     ![c] = add_message_to_history(@, DisplayName(u), <<"n speedduel", h>>)]
           /\ appended' = [appended EXCEPT ![c] = Append(@, t)]
           /\ locks_by_channel' = Acquire(locks_by_channel, c, h)
           /\ tasks' = Append(Received(tasks, Message(c, u, SPEEDDUEL_TEXT)),
                 [NewTask("speedduel", c, u) EXCEPT
                     !.pc = IF got THEN "intro" ELSE "lock_wait"])
           /\ IF got THEN StartDuel(h, c) ELSE UNCHANGED outbox
    /\ env' = [env EXCEPT !.duel = @ - 1]
    /\ UNCHANGED <<splitVars, leaderboard>>

\* a woken "n speedduel" handler takes the lock and starts the duel
ResumeDuel(h) ==
    /\ tasks[h].kind = "speedduel" /\ Woken(h)
    /\ locks_by_channel' = TakeOver(locks_by_channel, tasks[h].chan)
    /\ StartDuel(h, tasks[h].chan)
    /\ tasks' = [tasks EXCEPT ![h].pc = "intro"]
    /\ UNCHANGED <<splitVars, histVars, leaderboard, env>>

\* the next pass of "for diff in difficulties": a question is generated (a
\* synchronous call) and posted
NextRound(h, ans) ==
    /\ tasks[h].kind = "speedduel" /\ tasks[h].pc \in {"intro", "pause"}
    /\ tasks[h].d.round < Len(difficulties)
    /\ outbox' = [outbox EXCEPT ![tasks[h].chan] =
          Append(@, Sent(h, "question", difficulties[tasks[h].d.round + 1]))]
    /\ tasks' = [tasks EXCEPT ![h].pc = "posted",
                              ![h].d.round = @ + 1,
                              ![h].d.answer = ans]
    /\ UNCHANGED <<splitVars, histVars, locks_by_channel, leaderboard, env>>

\* the question is sent: bot.wait_for("message", check, timeout=10) begins
Listen(h) ==
    /\ tasks[h].kind = "speedduel" /\ tasks[h].pc = "posted"
    /\ tasks' = [tasks EXCEPT ![h].pc = "await_answer",
                              ![h].d.timer = 0,
                              ![h].d.elapsed = 0]
    /\ UNCHANGED <<splitVars, histVars, locks_by_channel, outbox, leaderboard, env>>

\* time passes while wait_for is pending
Tick(h) ==
    /\ tasks[h].kind = "speedduel" /\ tasks[h].pc = "await_answer"
    /\ tasks[h].d.timer < TimeoutSeconds
    /\ tasks' = [tasks EXCEPT ![h].d.timer = @ + TickSeconds,
                              ![h].d.elapsed = Min(@ + TickSeconds, MaxElapsed)]
    /\ UNCHANGED <<splitVars, histVars, locks_by_channel, outbox, leaderboard, env>>

\* wait_for raises asyncio.TimeoutError: the timeout announcement
Timeout(h) ==
    /\ tasks[h].kind = "speedduel" /\ tasks[h].pc = "await_answer"
    /\ tasks[h].d.timer >= TimeoutSeconds
    /\ outbox' = [outbox EXCEPT ![tasks[h].chan] =
          Append(@, Sent(h, "timeout", tasks[h].d.round))]
    /\ tasks' = [tasks EXCEPT ![h].pc = "pause"]
    /\ UNCHANGED <<splitVars, histVars, locks_by_channel, leaderboard, env>>

\* a message that is no command: it is dispatched to the pending wait_for
\* calls, and on_message records it and returns
OnMessageOther(c, u, content) ==
    /\ c \in env.chans /\ u \in env.users
    /\ env.other > 0
    /\ LET m == Message(c, u, content)
       IN  /\ tasks' = Received(tasks, m)
           /\ history_by_channel' =
                 [history_by_channel EXCEPT
                     ![c] = add_message_to_history(@, DisplayName(u), content)]
           /\ appended' = [appended EXCEPT
                 ![c] = Append(@, ContextTurn(DisplayName(u), content))]
    /\ env' = [env EXCEPT !.other = @ - 1]
    /\ UNCHANGED <<splitVars, locks_by_channel, outbox, leaderboard>>

\* a message of another bot: it is dispatched to the pending wait_for
\* calls, and on_message returns at once
OnMessageBot(c, content) ==
    /\ c \in env.chans
    /\ env.bot > 0
    /\ tasks' = Received(tasks, [Message(c, 0, content) EXCEPT !.bot = TRUE])
    /\ env' = [env EXCEPT !.bot = @ - 1]
    /\ UNCHANGED <<splitVars, histVars, locks_by_channel, outbox, leaderboard>>

\* the point and the announcement for a correct guess
GradeCorrect(t, h) ==
    [t EXCEPT !.pc = "pause",
              !.d.scores = AddPoint(@, t.d.guess_msg.author),
              !.d.awards = Append(@, [round |-> t.d.round,
                                      user |-> t.d.guess_msg.author]),
              !.d.graded = @ \cup {[round |-> t.d.round,
                                      msg |-> t.d.guess_msg,
                                      correct |-> TRUE]}]

\* an incorrect guess: the loop calls wait_for again, with a new timeout
GradeWrong(t, h) ==
    [t EXCEPT !.pc = "await_answer",
              !.d.timer = 0,
              !.d.graded = @ \cup {[round |-> t.d.round,
                                      msg |-> t.d.guess_msg,
                                      correct |-> FALSE]}]

\* wait_for returned a message: the body of the "while True" loop
Grade(h) ==
    /\ tasks[h].kind = "speedduel" /\ tasks[h].pc = "got_guess"
    /\ IF is_guess_correct(tasks[h].d.guess_msg.content, tasks[h].d.answer)
       THEN /\ tasks' = [tasks EXCEPT ![h] = GradeCorrect(@, h)]
            /\ outbox' = [outbox EXCEPT ![tasks[h].chan] =
                  Append(@, Sent(h, "correct", tasks[h].d.round))]
       ELSE /\ tasks' = [tasks EXCEPT ![h] = GradeWrong(@, h)]
            /\ UNCHANGED outbox
    /\ UNCHANGED <<splitVars, histVars, locks_by_channel, leaderboard, env>>

\* a duel whose last round is the next one to be asked
RoundsOverEarly(t) == t.d.round = Len(difficulties) - 1

\* "for round_idx, diff in enumerate(difficulties, start=1)" has run out
RoundsOver(t) == t.d.round = Len(difficulties)

\* a duel's end that calls update_leaderboard whatever the scores are
StoreAlwaysUpdated(data, guild_id, scores) ==
    update_leaderboard(data, guild_id, scores, Winners(scores))

\* a duel's end whose update starts from a file read before the other
\* duels wrote theirs
StoreAfterStale(data, guild_id, scores) ==
    IF DOMAIN scores = {} THEN data
    ELSE update_leaderboard(<<>>, guild_id, scores, Winners(scores))

\* the leaderboard file after the end of a duel: "if not scores: ...
\* return" leaves it alone, otherwise update_leaderboard(guild_id, scores,
\* winners) rewrites it
StoreAfter(data, guild_id, scores) ==
    IF DOMAIN scores = {} THEN data
    ELSE update_leaderboard(data, guild_id, scores, Winners(scores))

\* after the last round: the no-winner message, or the leaderboard update
\* and the final scoreboard
Finalize(h) ==
    /\ tasks[h].kind = "speedduel" /\ tasks[h].pc = "pause"
    /\ RoundsOver(tasks[h])
    /\ LET c == tasks[h].chan
           scores == tasks[h].d.scores
       IN  /\ leaderboard' = StoreAfter(leaderboard, GuildOf(c), scores)
           /\ outbox' = [outbox EXCEPT ![c] =
                  Append(@, IF DOMAIN scores = {}
                            THEN Sent(h, "nowinner", 0)
                            ELSE Sent(h, "scoreboard", Winners(scores)))]
    /\ tasks' = [tasks EXCEPT ![h].pc = "final"]
    /\ UNCHANGED <<splitVars, histVars, locks_by_channel, env>>

\* run_speedduel returned: the end of "async with lock"
EndDuel(h) ==
    /\ tasks[h].kind = "speedduel" /\ tasks[h].pc = "final"
    /\ locks_by_channel' = Release(locks_by_channel, tasks[h].chan)
    /\ tasks' = [tasks EXCEPT ![h].pc = "done"]
    /\ UNCHANGED <<splitVars, histVars, outbox, leaderboard, env>>

----------------------------------------------------------------------------
(* The reply handlers (src/bot.py 751-778, 849-958).                       *)

\* the reply text of request h
ReplyText(h, out) == <<"reply", h, IF out.ok THEN "text" ELSE "Oops">>

\* get_near_reply then the end of "async with lock", then
\* split_into_messages and the first send: the steps of a reply handler from
\* the await before get_near_reply to the await of its first send
ReplyAndRelease(h, out) ==
    LET c == tasks[h].chan
        turn == AssistantTurn(ReplyText(h, out))
    IN  /\ history_by_channel' =
              [history_by_channel EXCEPT
                  ![c] = get_near_reply_history(@, ReplyText(h, out))]
        /\ appended' = [appended EXCEPT ![c] = Append(@, turn)]
        /\ outbox' = [outbox EXCEPT ![c] = Append(@, Sent(h, "chunk", 1))]
        /\ tasks' = [tasks EXCEPT
              ![h].pc = IF out.chunks = 1 THEN "done" ELSE "sending",
              ![h].chunks = out.chunks,
              ![h].sent = 1]

\* on_message for "n <text>": the message is dispatched to the pending
\* wait_for calls and recorded, the lock is taken or waited for, and with the
\* lock the handler awaits channel.typing()
OnMessageN(c, u) ==
    /\ c \in env.chans /\ u \in env.users
    /\ env.n > 0
    /\ LET h == Len(tasks) + 1
           t == ContextTurn(DisplayName(u), <<"n", SP, h>>)
           got == CanAcquire(get_channel_lock(locks_by_channel, c)[c])
       IN  /\ history_by_channel' =
                 [history_by_channel EXCEPT
                     ![c] = add_message_to_history(@, DisplayName(u), <<"n", SP, h>>)]
           /\ appended' = [appended EXCEPT ![c] = Append(@, t)]
           /\ locks_by_channel' = Acquire(locks_by_channel, c, h)
           /\ tasks' = Append(Received(tasks, Message(c, u, N_TEXT)),
                 [NewTask("n", c, u) EXCEPT
                     !.pc = IF got THEN "typing" ELSE "lock_wait"])
    /\ env' = [env EXCEPT !.n = @ - 1]
    /\ UNCHANGED <<splitVars, outbox, leaderboard>>

\* a woken "n <text>" handler takes the lock and awaits channel.typing()
ResumeN(h) ==
    /\ tasks[h].kind = "n" /\ Woken(h)
    /\ locks_by_channel' = TakeOver(locks_by_channel, tasks[h].chan)
    /\ tasks' = [tasks EXCEPT ![h].pc = "typing"]
    /\ UNCHANGED <<splitVars, histVars, outbox, leaderboard, env>>

\* typing() entered: get_near_reply, release, split, first send
ReplyN(h, out) ==
    /\ tasks[h].kind = "n" /\ tasks[h].pc = "typing"
    /\ ReplyAndRelease(h, out)
    /\ locks_by_channel' = Release(locks_by_channel, tasks[h].chan)
    /\ UNCHANGED <<splitVars, leaderboard, env>>

\* near_cmd: the prompt is recorded and the interaction deferred (an await)
\* before the lock is asked for
NearCmd(c, u) ==
    /\ c \in env.chans /\ u \in env.users
    /\ env.near > 0
    /\ LET h == Len(tasks) + 1
           t == ContextTurn(DisplayName(u), <<"/near", h>>)
       IN  /\ history_by_channel' =
                 [history_by_channel EXCEPT
                     ![c] = add_message_to_history(@, DisplayName(u), <<"/near", h>>)]
           /\ appended' = [appended EXCEPT ![c] = Append(@, t)]
           /\ tasks' = Append(tasks, [NewTask("near_cmd", c, u) EXCEPT !.pc = "defer"])
    /\ env' = [env EXCEPT !.near = @ - 1]
    /\ UNCHANGED <<splitVars, locks_by_channel, outbox, leaderboard>>

\* defer() returned and the lock is free: get_near_reply, release, first send
NearCmdReply(h, out) ==
    /\ tasks[h].kind = "near_cmd" /\ tasks[h].pc = "defer"
    /\ CanAcquire(get_channel_lock(locks_by_channel, tasks[h].chan)[tasks[h].chan])
    /\ ReplyAndRelease(h, out)
    /\ locks_by_channel' =
          Release(Acquire(locks_by_channel, tasks[h].chan, h), tasks[h].chan)
    /\ UNCHANGED <<splitVars, leaderboard, env>>

\* defer() returned and the lock is taken: the handler queues
NearCmdWait(h) ==
    /\ tasks[h].kind = "near_cmd" /\ tasks[h].pc = "defer"
    /\ ~CanAcquire(get_channel_lock(locks_by_channel, tasks[h].chan)[tasks[h].chan])
    /\ locks_by_channel' = Acquire(locks_by_channel, tasks[h].chan, h)
    /\ tasks' = [tasks EXCEPT ![h].pc = "lock_wait"]
    /\ UNCHANGED <<splitVars, histVars, outbox, leaderboard, env>>

\* a woken near_cmd takes the lock: get_near_reply, release, first send
ResumeNearCmd(h, out) ==
    /\ tasks[h].kind = "near_cmd" /\ Woken(h)
    /\ ReplyAndRelease(h, out)
    /\ locks_by_channel' =
          Release(TakeOver(locks_by_channel, tasks[h].chan), tasks[h].chan)
    /\ UNCHANGED <<splitVars, leaderboard, env>>

\* the send of a chunk returned and the next chunk is sent; the handler
\* ends, with no further effect, when the send of its last chunk returns
SendNext(h) ==
    /\ tasks[h].pc = "sending"
    /\ outbox' = [outbox EXCEPT
          ![tasks[h].chan] = Append(@, Sent(h, "chunk", tasks[h].sent + 1))]
    /\ tasks' = [tasks EXCEPT
          ![h].sent = @ + 1,
          ![h].pc = IF tasks[h].sent + 1 = tasks[h].chunks THEN "done" ELSE "sending"]
    /\ UNCHANGED <<splitVars, histVars, locks_by_channel, leaderboard, env>>

\* on_message for "n riddle": the message is recorded, the riddle generated
\* (a synchronous call) and sent; no lock is taken
OnMessageRiddle(c, u) ==
    /\ c \in env.chans /\ u \in env.users
    /\ env.riddle > 0
    /\ LET h == Len(tasks) + 1
           t == ContextTurn(DisplayName(u), <<"n riddle", h>>)
       IN  /\ history_by_channel' =
                 [history_by_channel EXCEPT
                     ![c] = add_message_to_history(@, DisplayName(u), <<"n riddle", h>>)]
           /\ appended' = [appended EXCEPT ![c] = Append(@, t)]
           /\ outbox' = [outbox EXCEPT ![c] = Append(@, Sent(h, "riddle", 0))]
           /\ tasks' = Append(Received(tasks, Message(c, u, RIDDLE_TEXT)),
                 [NewTask("riddle", c, u) EXCEPT !.pc = "riddle_reply"])
    /\ env' = [env EXCEPT !.riddle = @ - 1]
    /\ UNCHANGED <<splitVars, locks_by_channel, leaderboard>>

\* message.reply(riddle_text) returned: the riddle is appended to the history
RiddleAppend(h) ==
    /\ tasks[h].kind = "riddle" /\ tasks[h].pc = "riddle_reply"
    /\ LET c == tasks[h].chan
       IN  /\ history_by_channel' =
                 [history_by_channel EXCEPT ![c] = riddle_history(@, <<"riddle", h>>)]
           /\ appended' = [appended EXCEPT
                 ![c] = Append(@, AssistantTurn(<<"riddle", h>>))]
    /\ tasks' = [tasks EXCEPT ![h].pc = "done"]
    /\ UNCHANGED <<splitVars, locks_by_channel, outbox, leaderboard, env>>

\* the inputs of one run: the channels in use and how many messages of each
\* kind arrive
MaxDuel == 2
MaxOther == 2

Scenarios ==
    { [chans |-> {1}, users |-> {11}, n |-> 2, near |-> 1,
       duel |-> 0, riddle |-> 0, other |-> 0, bot |-> 0],
      [chans |-> Channels, users |-> {11}, n |-> 1, near |-> 0,
       duel |-> 0, riddle |-> 1, other |-> 0, bot |-> 0],
      [chans |-> {1}, users |-> Users, n |-> 0, near |-> 0,
       duel |-> 1, riddle |-> 0, other |-> MaxOther, bot |-> 0],
      [chans |-> {1}, users |-> {11}, n |-> 0, near |-> 0,
       duel |-> MaxDuel, riddle |-> 0, other |-> 0, bot |-> 0],
      [chans |-> {1}, users |-> {11}, n |-> 1, near |-> 0,
       duel |-> 1, riddle |-> 0, other |-> 1, bot |-> 1],
      [chans |-> Channels, users |-> {11}, n |-> 0, near |-> 0,
       duel |-> 1, riddle |-> 0, other |-> 1, bot |-> 0],
      [chans |-> Channels, users |-> {11}, n |-> 3, near |-> 0,
       duel |-> 0, riddle |-> 0, other |-> 0, bot |-> 0] }

Init ==
    /\ SplitIdle
    /\ BotFresh
    /\ env \in Scenarios

Next ==
    \/ \E c \in Channels, u \in Users : OnMessageN(c, u)
    \/ \E c \in Channels, u \in Users : NearCmd(c, u)
    \/ \E c \in Channels, u \in Users : OnMessageRiddle(c, u)
    \/ \E h \in TaskIds : ResumeN(h)
    \/ \E h \in TaskIds, out \in ReplyOutcomes : ReplyN(h, out)
    \/ \E h \in TaskIds, out \in ReplyOutcomes : NearCmdReply(h, out)
    \/ \E h \in TaskIds : NearCmdWait(h)
    \/ \E h \in TaskIds, out \in ReplyOutcomes : ResumeNearCmd(h, out)
    \/ \E h \in TaskIds : SendNext(h)
    \/ \E h \in TaskIds : RiddleAppend(h)
    \/ \E c \in Channels, u \in Users : OnMessageSpeedduel(c, u)
    \/ \E h \in TaskIds : ResumeDuel(h)
    \/ \E h \in TaskIds, ans \in Answers : NextRound(h, ans)
    \/ \E h \in TaskIds : Listen(h)
    \/ \E h \in TaskIds : Tick(h)
    \/ \E h \in TaskIds : Timeout(h)
    \/ \E c \in Channels, u \in Users, g \in Guesses : OnMessageOther(c, u, g)
    \/ \E c \in Channels, g \in Guesses : OnMessageBot(c, g)
    \/ \E h \in TaskIds : Grade(h)
    \/ \E h \in TaskIds : Finalize(h)
    \/ \E h \in TaskIds : EndDuel(h)

Spec == Init /\ [][Next]_vars

----------------------------------------------------------------------------
(* Properties of the replies and the lock.                                 *)

ReplyKinds == {"n", "near_cmd"}

\* the positions of the chunks of reply h among the messages of channel c
ChunkPositions(c, h) ==
    { i \in DOMAIN outbox[c] : outbox[c][i].kind = "chunk" /\ outbox[c][i].from = h }

\* reply h is in flight: its lock is held, or chunks of it are still to send
InFlight(h) ==
    /\ tasks[h].kind \in ReplyKinds
    /\ tasks[h].pc \in {"typing", "sending"}

\* C2: the chunks of two replies on one channel are never interleaved, and
\* the processing of a second request begins only after the generation and
\* all the sends of the first.
C2_RepliesNotInterleaved ==
    \A h1 \in TaskIds, h2 \in TaskIds :
        (h1 # h2 /\ tasks[h1].chan = tasks[h2].chan)
            => /\ ~(InFlight(h1) /\ InFlight(h2))
               /\ \A i \in ChunkPositions(tasks[h1].chan, h1),
                     k \in ChunkPositions(tasks[h1].chan, h1),
                     j \in ChunkPositions(tasks[h1].chan, h2) : ~(i < j /\ j < k)

DuelPcs == {"intro", "posted", "await_answer", "got_guess", "pause", "final"}

\* task h is inside "async with lock"
InGuardedRegion(h) ==
    \/ tasks[h].kind = "n" /\ tasks[h].pc = "typing"
    \/ tasks[h].kind = "speedduel" /\ tasks[h].pc \in DuelPcs

\* the messages duel h has sent, in order
DuelEvents(h) ==
    SelectSeq(outbox[tasks[h].chan],
              LAMBDA e : e.from = h /\ tasks[h].kind = "speedduel")

\* C3: at most one handler per channel is inside the region the channel's
\* lock guards, the lock is held while one is, and a second duel on a
\* channel sends nothing before the first has finished.
C3_OneHandlerInGuardedRegion ==
    /\ \A h1 \in TaskIds, h2 \in TaskIds :
          (h1 # h2 /\ tasks[h1].chan = tasks[h2].chan)
              => ~(InGuardedRegion(h1) /\ InGuardedRegion(h2))
    /\ \A h \in TaskIds :
          InGuardedRegion(h) => locks_by_channel[tasks[h].chan].locked
    /\ \A h1 \in TaskIds, h2 \in TaskIds :
          (h1 # h2 /\ tasks[h1].chan = tasks[h2].chan
              /\ DuelEvents(h1) # <<>> /\ DuelEvents(h2) # <<>>)
              => (tasks[h1].pc = "done" \/ tasks[h2].pc = "done")

\* a duel is running and a second "n speedduel" of the channel waits
C3_Witness ==
    \E h1 \in TaskIds, h2 \in TaskIds :
        /\ tasks[h1].chan = tasks[h2].chan
        /\ tasks[h1].kind = "speedduel" /\ tasks[h1].pc = "await_answer"
        /\ tasks[h2].kind = "speedduel" /\ tasks[h2].pc = "lock_wait"

\* the position of the assistant turn of reply h in what was appended to
\* the history of channel c
TurnPositions(c, h) ==
    { i \in DOMAIN appended[c] :
         /\ appended[c][i].role = "assistant"
         /\ appended[c][i].content[1] = "reply"
         /\ appended[c][i].content[2] = h }

\* C4: if reply request h1 is received before reply request h2 on the same
\* channel, the reply of h1 is generated and appended to the history before
\* that of h2, and is sent before that of h2.
C4_RepliesInSubmissionOrder ==
    \A h1 \in TaskIds, h2 \in TaskIds :
        (/\ h1 < h2
         /\ tasks[h1].chan = tasks[h2].chan
         /\ tasks[h1].kind \in ReplyKinds /\ tasks[h2].kind \in ReplyKinds)
            => LET c == tasks[h1].chan
               IN  /\ TurnPositions(c, h2) # {} =>
                         /\ TurnPositions(c, h1) # {}
                         /\ \A i \in TurnPositions(c, h1), j \in TurnPositions(c, h2) : i < j
                   /\ ChunkPositions(c, h2) # {} =>
                         /\ tasks[h1].pc = "done"
                         /\ \A i \in ChunkPositions(c, h1), j \in ChunkPositions(c, h2) : i < j

----------------------------------------------------------------------------
(* Properties of the duel.                                                 *)

Duels == { h \in TaskIds : tasks[h].kind = "speedduel" }

\* the rounds of a duel as the specification lists them
RoundPlan == <<"easy", "easy", "medium">>

\* the i-th message of a duel is the one the course of a duel has there:
\* the opening, then per round the question and one announcement, then the
\* closing message
ExpectedEvent(i, e) ==
    IF i = 1 THEN e.kind = "intro"
    ELSE IF i = 2 * Len(RoundPlan) + 2 THEN e.kind \in {"nowinner", "scoreboard"}
    ELSE IF i % 2 = 0
         THEN e.kind = "question" /\ e.arg = RoundPlan[i \div 2]
         ELSE e.kind \in {"correct", "timeout"} /\ e.arg = (i - 1) \div 2

\* C8: every duel goes through exactly three rounds, easy, easy, medium; in
\* each round the question is posted, then exactly one of the correct-answer
\* and the timeout announcement is sent before the next question; the duel
\* is finalized and done only after the third round has concluded.
C8_ThreeRoundsInOrder ==
    \A h \in Duels :
        LET tr == DuelEvents(h)
        IN  /\ Len(tr) <= 2 * Len(RoundPlan) + 2
            /\ \A i \in DOMAIN tr : ExpectedEvent(i, tr[i])
            /\ tasks[h].pc \in {"final", "done"} => Len(tr) = 2 * Len(RoundPlan) + 2
            /\ tasks[h].pc = "posted" => Len(tr) = 2 * tasks[h].d.round
            /\ tasks[h].pc \in {"await_answer", "got_guess"} =>
                  Len(tr) = 2 * tasks[h].d.round
            /\ tasks[h].pc = "pause" => Len(tr) = 2 * tasks[h].d.round + 1
            /\ tasks[h].d.round <= Len(RoundPlan)

\* a duel is done, after its three rounds and the closing message
C8_Witness ==
    \E h \in Duels :
        /\ tasks[h].pc = "done"
        /\ Len(DuelEvents(h)) = 2 * Len(RoundPlan) + 2
        /\ \E i \in DOMAIN DuelEvents(h) : DuelEvents(h)[i].kind = "correct"
        /\ \E i \in DOMAIN DuelEvents(h) : DuelEvents(h)[i].kind = "timeout"

\* the guesses of round r that wait_for returned and that were graded correct
CorrectGraded(h, r) ==
    { g \in tasks[h].d.graded : g.round = r /\ g.correct }

\* the points of round r
Awards(h, r) ==
    { i \in DOMAIN tasks[h].d.awards : tasks[h].d.awards[i].round = r }

RECURSIVE SumScores(_, _)
SumScores(scores, us) ==
    IF us = {} THEN 0
    ELSE LET u == CHOOSE x \in us : TRUE
         IN  ScoreOf(scores, u) + SumScores(scores, us \ {u})

\* C9: in each round at most one point is awarded, to the author of the
\* first guess graded correct; a correct guess that arrives after the round
\* has concluded changes no score; the scores sum to at most 3.
C9_OnePointPerRound ==
    \A h \in Duels :
        LET d == tasks[h].d
        IN  /\ \A r \in 1..Len(RoundPlan) :
                  /\ Cardinality(Awards(h, r)) <= 1
                  /\ Cardinality(CorrectGraded(h, r)) <= 1
                  /\ \A i \in Awards(h, r) :
                        \E g \in CorrectGraded(h, r) :
                            g.msg.author = d.awards[i].user
            /\ \A u \in Users :
                  ScoreOf(d.scores, u) =
                      Cardinality({ i \in DOMAIN d.awards : d.awards[i].user = u })
            /\ SumScores(d.scores, Users) =
                  Cardinality({ i \in DOMAIN DuelEvents(h) :
                                   DuelEvents(h)[i].kind = "correct" })
            /\ SumScores(d.scores, Users) <= Len(RoundPlan)

\* a duel gave a point, and a correct guess arrived after that round had
\* concluded; the duel has come to its closing message
C9_Witness ==
    \E h \in Duels :
        /\ tasks[h].pc \in {"final", "done"}
        /\ tasks[h].d.late >= 1
        /\ SumScores(tasks[h].d.scores, Users) >= 1

\* C10: the answer window of a round is a fixed 10 seconds: waiting never
\* goes on for more than 10 seconds after it began, and the timeout
\* announcement is sent at most 10 seconds after it began, however many
\* incorrect guesses arrive.
C10_FixedAnswerWindow ==
    \A h \in Duels :
        tasks[h].pc \in {"await_answer", "got_guess", "pause"}
            => tasks[h].d.elapsed <= TimeoutSeconds

\* message m may be a guess in a duel of channel c: it is in the channel,
\* no automated sender wrote it, and it does not begin with "n " in either
\* case of the letter
Eligible(m, c) ==
    /\ m.chan = c
    /\ ~m.bot
    /\ ~(Len(m.content) >= 2 /\ m.content[1] \in {"n", "N"} /\ m.content[2] = SP)

\* C12: while a duel waits for an answer, a message is graded as a guess only
\* if it is in the duel's channel, its author is no automated sender and its
\* lower-cased content does not start with "n "; no other message gives a
\* point or ends the round.
C12_OnlyEligibleGuessesGraded ==
    \A h \in Duels :
        LET d == tasks[h].d
            c == tasks[h].chan
        IN  /\ \A g \in d.graded : Eligible(g.msg, c)
            /\ tasks[h].pc = "got_guess" => Eligible(d.guess_msg, c)
            /\ \A i \in DOMAIN d.awards :
                  \E g \in d.graded :
                      /\ g.correct /\ g.round = d.awards[i].round
                      /\ g.msg.author = d.awards[i].user
                      /\ Eligible(g.msg, c)
            /\ Cardinality({ i \in DOMAIN DuelEvents(h) : DuelEvents(h)[i].kind = "correct" })
                  = Cardinality({ g \in d.graded : g.correct })

\* a duel turned a message down while it waited, and graded a guess
C12_Witness ==
    \E h \in Duels :
        /\ tasks[h].d.ignored
        /\ tasks[h].d.graded # {}

\* the lock get_channel_lock(c) returns when the registry is locks
ReturnedLock(locks, c) == get_channel_lock(locks, c)[c]

\* C21: get_channel_lock returns the same lock on every call for a channel
\* and different locks for different channels; a lock of the registry is
\* never replaced or removed, whatever the handlers do.
C21_OneLockPerChannel ==
    [][/\ \A c \in Channels :
             locks_by_channel[c].exists =>
                 /\ locks_by_channel'[c].exists
                 /\ locks_by_channel'[c].id = locks_by_channel[c].id
       /\ \A c \in Channels :
             /\ ReturnedLock(locks_by_channel, c).id =
                   ReturnedLock(get_channel_lock(locks_by_channel, c), c).id
             /\ locks_by_channel[c].exists =>
                   ReturnedLock(locks_by_channel, c) = locks_by_channel[c]
       /\ \A c, d \in Channels :
             c # d =>
                 ReturnedLock(locks_by_channel, c).id #
                     ReturnedLock(get_channel_lock(locks_by_channel, c), d).id
      ]_vars

\* both channels have their lock, and a second handler of a channel has
\* got the lock of the first and waits for it
C21_Witness ==
    /\ \A c \in Channels : locks_by_channel[c].exists
    /\ locks_by_channel[1].id # locks_by_channel[2].id
    /\ \E c \in Channels :
          /\ locks_by_channel[c].locked
          /\ locks_by_channel[c].waiters # <<>>

\* a message of a member, or a slash command, has been delivered in this
\* step
MemberMessage ==
    \/ env'.n < env.n \/ env'.near < env.near \/ env'.duel < env.duel
    \/ env'.riddle < env.riddle \/ env'.other < env.other

\* a message of a bot has been delivered in this step
BotMessage == env'.bot < env.bot

\* the last turn of history h is a "[Context] <name> said: <text>" entry
EndsWithContext(h) ==
    /\ Len(h) >= 1
    /\ h[Len(h)].role = "system"
    /\ h[Len(h)].content[1] = "[Context]"
    /\ h[Len(h)].content[2] \in { DisplayName(u) : u \in Users }
    /\ h[Len(h)].content[3] = "said:"

\* this step has put a context entry at the end of a channel's history
ContextRecorded ==
    \E c \in Channels :
        /\ history_by_channel'[c] # history_by_channel[c]
        /\ EndsWithContext(history_by_channel'[c])
        /\ \A d \in Channels \ {c} : history_by_channel'[d] = history_by_channel[d]

\* the turns of history h
Turns(h) == { h[i] : i \in 1..Len(h) }

\* reply handler h has sent the first chunk of its reply on channel c
FirstChunkSent(c, h) ==
    \E i \in 1..Len(outbox[c]) :
        /\ outbox[c][i].from = h
        /\ outbox[c][i].kind = "chunk"
        /\ outbox[c][i].arg = 1

\* the replies sent and the riddles of the finished riddle handlers have
\* been appended as assistant turns, and the channel's history has the last
\* 40 turns appended
RepliesRecorded ==
    \A c \in Channels :
        /\ \A h \in TaskIds :
              (tasks[h].chan = c /\ FirstChunkSent(c, h)) =>
                  \E t \in Turns(appended[c]) :
                      /\ t.role = "assistant"
                      /\ t.content[1] = "reply" /\ t.content[2] = h
        /\ \A h \in TaskIds :
              (tasks[h].chan = c /\ tasks[h].kind = "riddle" /\ tasks[h].pc = "done") =>
                  AssistantTurn(<<"riddle", h>>) \in Turns(appended[c])
        /\ \A i \in 1..Len(appended[c]) :
              i > Len(appended[c]) - HistoryLimit =>
                  appended[c][i] \in Turns(history_by_channel[c])

\* C22 as stated: every message delivered, from any sender, gets its
\* "[Context] <name> said: <text>" entry in the channel's history, and every
\* reply is recorded, unless evicted by the bound of 40 turns.
C22_EveryMessageRecorded ==
    [][/\ (MemberMessage \/ BotMessage) => ContextRecorded
       /\ RepliesRecorded'
      ]_vars

\* C22, amended: every message of a sender that is no bot gets its
\* "[Context] <name> said: <text>" entry in the channel's history, a message
\* of a bot leaves the histories as they are, and the replies of
\* get_near_reply and the riddles are recorded as assistant turns, unless
\* evicted by the bound of 40 turns.
C22_MemberMessagesRecorded ==
    [][/\ MemberMessage => ContextRecorded
       /\ BotMessage => history_by_channel' = history_by_channel
       /\ RepliesRecorded'
      ]_vars

\* a guess typed during a duel has been graded and is in the history, and a
\* reply has been sent and recorded
C22_Witness ==
    /\ \E h \in Duels :
          \E g \in tasks[h].d.graded :
              ContextTurn(DisplayName(g.msg.author), g.msg.content)
                  \in Turns(history_by_channel[tasks[h].chan])
    /\ \E c \in Channels, h \in TaskIds :
          /\ FirstChunkSent(c, h)
          /\ \E t \in Turns(history_by_channel[c]) : t.role = "assistant"

\* duel h takes the step after its last round
Finalizing(h) ==
    /\ h \in DOMAIN tasks
    /\ tasks[h].kind = "speedduel"
    /\ tasks[h].pc = "pause" /\ tasks'[h].pc = "final"

\* the players whose total is the largest one, if a point was scored
TopScorers(scores) ==
    { u \in Users : /\ ScoreOf(scores, u) >= 1
                    /\ \A v \in Users : ScoreOf(scores, v) <= ScoreOf(scores, u) }

\* the entry of user u in the board of channel c's guild in file f
StoredEntry(f, c, u) ==
    LET gkey == GuildKey(GuildOf(c))
    IN  IF gkey \in DOMAIN f /\ ToString(u) \in DOMAIN f[gkey]
        THEN f[gkey][ToString(u)]
        ELSE [xp |-> 0, wins |-> 0, games |-> 0]

\* the last message of channel c in outbox o
LastSent(o, c) == o[c][Len(o[c])]

\* C16: when a duel with at least one point scored is finalized, the
\* winners are exactly the players whose total is the maximum, so there is a
\* winner and every winner has a point; every one of several tied players
\* is a winner and gets one win and the 20 XP bonus in the leaderboard.
C16_WinnersAreTopScorers ==
    [][\A h \in DOMAIN tasks :
          (Finalizing(h) /\ DOMAIN tasks[h].d.scores # {}) =>
              LET c == tasks[h].chan
                  scores == tasks[h].d.scores
                  W == LastSent(outbox', c).arg
              IN  /\ LastSent(outbox', c).kind = "scoreboard"
                  /\ W = TopScorers(scores)
                  /\ W # {}
                  /\ \A u \in W : ScoreOf(scores, u) >= 1
                  /\ \A u \in Users :
                        LET old == StoredEntry(leaderboard, c, u)
                            new == StoredEntry(leaderboard', c, u)
                        IN  IF u \in TopScorers(scores)
                            THEN /\ new.wins = old.wins + 1
                                 /\ new.xp = old.xp + 10 * scores[u] + 20
                            ELSE /\ new.wins = old.wins
                                 /\ new.xp = old.xp + 10 * ScoreOf(scores, u)
      ]_vars

\* a duel has ended in a tie of two players, and both have their win
C16_Witness ==
    \E h \in Duels :
        /\ tasks[h].pc = "final"
        /\ Cardinality(TopScorers(tasks[h].d.scores)) = 2
        /\ \A u \in Users : StoredEntry(leaderboard, tasks[h].chan, u).wins = 1

\* C17: a duel in which no point was scored sends the no-winner message and
\* ends without update_leaderboard: the leaderboard file is what it was.
C17_NoPointsNoUpdate ==
    [][\A h \in DOMAIN tasks :
          (Finalizing(h) /\ DOMAIN tasks[h].d.scores = {}) =>
              /\ LastSent(outbox', tasks[h].chan) = Sent(h, "nowinner", 0)
              /\ leaderboard' = leaderboard
      ]_vars

\* a duel without a point has ended, after a wrong guess, and there is no
\* leaderboard file
C17_Witness ==
    \E h \in Duels :
        /\ tasks[h].pc = "done"
        /\ tasks[h].d.scores = <<>>
        /\ tasks[h].d.graded # {}
        /\ leaderboard = <<>>

\* C18: a duel writes the leaderboard file at most once and only after all
\* of its rounds: the file changes only in the step a duel takes after its
\* last round, and a duel that has taken this step does not take it again;
\* while a duel announces, waits or grades, the file has nothing of it.
C18_OneWriteAfterAllRounds ==
    [][/\ leaderboard' # leaderboard =>
             \E h \in DOMAIN tasks :
                 /\ Finalizing(h)
                 /\ tasks[h].d.round = Len(difficulties)
                 /\ Cardinality({ e \in 1..Len(outbox[tasks[h].chan]) :
                        /\ outbox[tasks[h].chan][e].from = h
                        /\ outbox[tasks[h].chan][e].kind \in {"correct", "timeout"} })
                      = Len(difficulties)
                 /\ \A g \in DOMAIN tasks : g # h => tasks'[g] = tasks[g]
       /\ \A h \in DOMAIN tasks :
             tasks[h].pc \in {"final", "done"} => tasks'[h].pc \in {"final", "done"}
      ]_vars

\* a duel has written its result after its three rounds
C18_Witness ==
    \E h \in Duels :
        /\ tasks[h].pc = "final"
        /\ tasks[h].d.round = 3
        /\ tasks[h].d.scores # <<>>
        /\ leaderboard # <<>>

\* the duels that have passed their leaderboard update and in which user u
\* has points
ScoredIn(u) ==
    { h \in Duels : /\ tasks[h].pc \in {"final", "done"}
                    /\ u \in DOMAIN tasks[h].d.scores }

\* the XP user u has earned in the duels of ds
RECURSIVE XpEarned(_, _)
XpEarned(u, ds) ==
    IF ds = {} THEN 0
    ELSE LET h == CHOOSE x \in ds : TRUE
             scores == tasks[h].d.scores
         IN  10 * scores[u] + (IF u \in TopScorers(scores) THEN 20 ELSE 0)
                 + XpEarned(u, ds \ {h})

\* C23: the load-modify-save cycles of update_leaderboard do not overlap,
\* also when duels of two channels of one guild end at the same time: the
\* guild's board has the games, wins and XP of every duel that has updated
\* it, and no update is lost.
C23_NoLostUpdate ==
    \A u \in Users :
        LET entry == StoredEntry(leaderboard, 1, u)
        IN  /\ entry.games = Cardinality(ScoredIn(u))
            /\ entry.wins = Cardinality({ h \in ScoredIn(u) :
                                u \in TopScorers(tasks[h].d.scores) })
            /\ entry.xp = XpEarned(u, ScoredIn(u))

\* two duels on the two channels have made their update, neither has
\* returned, and the player who scored in both has two games on the board
C23_Witness ==
    \E h, g \in Duels :
        /\ tasks[h].chan # tasks[g].chan
        /\ GuildOf(tasks[h].chan) = GuildOf(tasks[g].chan)
        /\ tasks[h].pc = "final" /\ tasks[g].pc = "final"
        /\ 11 \in DOMAIN tasks[h].d.scores \cap DOMAIN tasks[g].d.scores
        /\ StoredEntry(leaderboard, 1, 11).games = 2

\* the round of duel t is open: its question is posted and neither a
\* correct guess nor the timeout has concluded it
RoundOpen(t) ==
    t.kind = "speedduel" /\ t.pc \in {"posted", "await_answer", "got_guess"}

\* C31: when a round's canonical answer is empty, no guess is graded
\* correct, no point is awarded in that round, and the round ends with the
\* timeout announcement.
C31_EmptyAnswerRoundTimesOut ==
    [][\A h \in DOMAIN tasks :
          (RoundOpen(tasks[h]) /\ tasks[h].d.answer = <<>>) =>
              /\ tasks'[h].d.scores = tasks[h].d.scores
              /\ tasks'[h].d.awards = tasks[h].d.awards
              /\ \A g \in tasks'[h].d.graded \ tasks[h].d.graded : ~g.correct
              /\ ~RoundOpen(tasks'[h]) =>
                    /\ tasks'[h].pc = "pause"
                    /\ outbox'[tasks[h].chan] =
                          Append(outbox[tasks[h].chan],
                                 Sent(h, "timeout", tasks[h].d.round))]_vars

\* a round with an empty answer has ended with the timeout announcement
\* after a guess that names the usual answer was graded
C31_Witness ==
    \E h \in Duels :
        /\ tasks[h].pc = "pause"
        /\ tasks[h].d.answer = <<>>
        /\ tasks[h].d.scores = <<>>
        /\ \E g \in tasks[h].d.graded :
              g.round = tasks[h].d.round /\ g.msg.content = HASH /\ ~g.correct
        /\ LastSent(outbox, tasks[h].chan) = Sent(h, "timeout", tasks[h].d.round)

\* C32: an ambient message recorded by add_message_to_history while a
\* reply for the same channel is being generated is not lost: once the
\* reply's assistant turn is stored, the history holds the message's
\* context entry before the assistant turn, unless the 40-turn bound has
\* evicted it.  The history is the appended turns in their order, without
\* the oldest ones when more than HistoryLimit have been appended.
C32_AmbientNotLost ==
    \A c \in Channels :
        LET hist == history_by_channel[c]
            log == appended[c]
        IN  /\ Len(hist) <= Len(log)
            /\ hist = SubSeq(log, Len(log) - Len(hist) + 1, Len(log))
            /\ Len(hist) >= Min(Len(log), HistoryLimit)

\* a member's message was recorded between the recording of request h and
\* the reply to h, and the history holds the three turns in that order
C32_Witness ==
    \E h \in TaskIds :
        LET c == tasks[h].chan
            hist == history_by_channel[c]
        IN  /\ tasks[h].kind = "n" /\ tasks[h].pc \in {"sending", "done"}
            /\ \E i, k, j \in 1..Len(hist) :
                  /\ i < k /\ k < j
                  /\ hist[i] = ContextTurn(DisplayName(tasks[h].user), <<"n", SP, h>>)
                  /\ hist[k].role = "system"
                  /\ hist[k].content[4] \in Guesses
                  /\ hist[j].role = "assistant"
                  /\ hist[j].content[1] = "reply" /\ hist[j].content[2] = h

----------------------------------------------------------------------------
(* A duel with players who never stop guessing.  The event loop runs every *)
(* task that can run and time passes, which the fairness conditions say;   *)
(* nothing is assumed of the players.                                      *)

\* one duel on one channel, and one reply request, which arrives while the
\* duel sends its opening message
LiveInputs ==
    [chans |-> {1}, users |-> {11}, n |-> 1, near |-> 0, duel |-> 1,
     riddle |-> 0, other |-> 0, bot |-> 0]

\* what the players keep typing
LiveGuesses == { <<"n", "o">> }

InitLive ==
    /\ SplitIdle
    /\ BotFresh
    /\ env = LiveInputs

\* OnMessageOther for players whose messages are not counted and who type
\* while a question is open, some seconds after the waiting began or after
\* the guess before; the log of the appended turns is not kept for them
OnMessageAgain(c, u, content) ==
    /\ c \in env.chans /\ u \in env.users
    /\ \E h \in TaskIds :
          /\ tasks[h].kind = "speedduel" /\ tasks[h].chan = c
          /\ Pending(tasks[h]) /\ tasks[h].d.timer >= TickSeconds
    /\ tasks' = Received(tasks, Message(c, u, content))
    /\ history_by_channel' =
          [history_by_channel EXCEPT
              ![c] = add_message_to_history(@, DisplayName(u), content)]
    /\ UNCHANGED <<splitVars, appended, locks_by_channel, outbox, leaderboard, env>>

\* the duel of channel c is sending its opening message
OpeningSent(c) ==
    \E h \in TaskIds :
        tasks[h].kind = "speedduel" /\ tasks[h].chan = c /\ tasks[h].pc = "intro"

\* the steps of the handlers, which the event loop takes
ResumeNStep == \E h \in TaskIds : ResumeN(h)
ReplyNStep == \E h \in TaskIds, out \in ReplyOutcomes : ReplyN(h, out)
SendNextStep == \E h \in TaskIds : SendNext(h)
NextRoundStep == \E h \in TaskIds : NextRound(h, HASH)
ListenStep == \E h \in TaskIds : Listen(h)
TickStep == \E h \in TaskIds : Tick(h)
TimeoutStep == \E h \in TaskIds : Timeout(h)
GradeStep == \E h \in TaskIds : Grade(h)
FinalizeStep == \E h \in TaskIds : Finalize(h)
EndDuelStep == \E h \in TaskIds : EndDuel(h)

NextLive ==
    \/ \E c \in Channels, u \in Users : OnMessageSpeedduel(c, u)
    \/ \E c \in Channels, u \in Users : OpeningSent(c) /\ OnMessageN(c, u)
    \/ \E c \in Channels, u \in Users, g \in LiveGuesses : OnMessageAgain(c, u, g)
    \/ ResumeNStep
    \/ ReplyNStep
    \/ SendNextStep
    \/ NextRoundStep
    \/ ListenStep
    \/ TickStep
    \/ TimeoutStep
    \/ GradeStep
    \/ FinalizeStep
    \/ EndDuelStep

LiveFairness ==
    /\ WF_vars(ResumeNStep)
    /\ WF_vars(ReplyNStep)
    /\ WF_vars(SendNextStep)
    /\ WF_vars(NextRoundStep)
    /\ WF_vars(ListenStep)
    /\ WF_vars(TickStep)
    /\ WF_vars(TimeoutStep)
    /\ WF_vars(GradeStep)
    /\ WF_vars(FinalizeStep)
    /\ WF_vars(EndDuelStep)

SpecLive == InitLive /\ [][NextLive]_vars /\ LiveFairness

\* a duel has started
DuelStarted == \E h \in Duels : tasks[h].pc \in DuelPcs

\* a duel has sent its closing message, ended and released the lock
DuelDone ==
    \E h \in Duels :
        /\ tasks[h].pc = "done"
        /\ DuelEvents(h) # <<>>
        /\ DuelEvents(h)[Len(DuelEvents(h))].kind \in {"nowinner", "scoreboard"}
        /\ \/ ~locks_by_channel[tasks[h].chan].locked
           \/ \E k \in TaskIds : k # h /\ InGuardedRegion(k)

\* a reply request waits for the lock of a channel on which a duel runs
ReplyQueued ==
    \E h \in TaskIds : tasks[h].kind = "n" /\ tasks[h].pc = "lock_wait"

\* a reply request has been served
ReplyServed ==
    \E h \in TaskIds : tasks[h].kind = "n" /\ tasks[h].pc = "done"

\* C11: every started duel eventually reaches Done, having sent the
\* no-winner message or the final scoreboard, and releases the lock, whatever
\* the players do; a reply request queued during the duel is eventually
\* served.
C11_DuelsTerminate ==
    /\ DuelStarted ~> DuelDone
    /\ ReplyQueued ~> ReplyServed

----------------------------------------------------------------------------
(* Two duels in one guild, on one channel or on two, with players who      *)
(* answer right.                                                           *)

\* two "n speedduel" and two answers, on any of the channels
GuildInputs ==
    [chans |-> Channels, users |-> {11}, n |-> 0, near |-> 0, duel |-> 2,
     riddle |-> 0, other |-> 2, bot |-> 0]

InitGuild ==
    /\ SplitIdle
    /\ BotFresh
    /\ env = GuildInputs

ResumeDuelStep == \E h \in TaskIds : ResumeDuel(h)

NextGuild ==
    \/ \E c \in Channels, u \in Users : OnMessageSpeedduel(c, u)
    \/ \E c \in Channels, u \in Users : OnMessageOther(c, u, HASH)
    \/ ResumeDuelStep
    \/ NextRoundStep
    \/ ListenStep
    \/ TickStep
    \/ TimeoutStep
    \/ GradeStep
    \/ FinalizeStep
    \/ EndDuelStep

SpecGuild == InitGuild /\ [][NextGuild]_vars

----------------------------------------------------------------------------
(* The event loop while a model call is made.  client_oai is the           *)
(* synchronous client (src/bot.py 7, 162), and get_near_reply calls         *)
(* client_oai.responses.create without an await (694): from the call to its *)
(* return the one thread of the event loop is inside the call, and no       *)
(* handler, timer or message delivery runs.  call holds the call the thread *)
(* is in.                                                                   *)

\* reply requests on the two channels, and a duel nobody answers
LoopInputs ==
    [chans |-> Channels, users |-> {11}, n |-> 2, near |-> 0, duel |-> 1,
     riddle |-> 0, other |-> 0, bot |-> 0]

InitLoop ==
    /\ SplitIdle
    /\ BotFresh
    /\ env = LoopInputs

\* the thread of the event loop is in no synchronous call
LoopFree == call = NoCall

\* the thread is in the model call of handler h
InModelCall(h) == call.op = "responses.create" /\ call.task = h

\* typing() entered: get_near_reply calls client_oai.responses.create
BeginReply(h) ==
    /\ LoopFree
    /\ tasks[h].kind = "n" /\ tasks[h].pc = "typing"
    /\ call' = [op |-> "responses.create", task |-> h]
    /\ tasks' = [tasks EXCEPT ![h].pc = "model_call"]
    /\ UNCHANGED <<text, max_len, parts, split_pc>>
    /\ UNCHANGED <<histVars, locks_by_channel, outbox, leaderboard, env>>

\* the model call returns or raises: the rest of get_near_reply, the release
\* of the lock, split_into_messages and the first send
EndReply(h, out) ==
    /\ InModelCall(h)
    /\ ReplyAndRelease(h, out)
    /\ locks_by_channel' = Release(locks_by_channel, tasks[h].chan)
    /\ call' = NoCall
    /\ UNCHANGED <<text, max_len, parts, split_pc>>
    /\ UNCHANGED <<leaderboard, env>>

NextLoop ==
    \/ LoopFree /\ \E c \in Channels, u \in Users : OnMessageN(c, u)
    \/ LoopFree /\ \E c \in Channels, u \in Users : OnMessageSpeedduel(c, u)
    \/ LoopFree /\ ResumeNStep
    \/ LoopFree /\ ResumeDuelStep
    \/ \E h \in TaskIds : BeginReply(h)
    \/ \E h \in TaskIds, out \in ReplyOutcomes : EndReply(h, out)
    \/ LoopFree /\ SendNextStep
    \/ LoopFree /\ NextRoundStep
    \/ LoopFree /\ ListenStep
    \/ LoopFree /\ TickStep
    \/ LoopFree /\ TimeoutStep
    \/ LoopFree /\ FinalizeStep
    \/ LoopFree /\ EndDuelStep

SpecLoop == InitLoop /\ [][NextLoop]_vars

\* handler a waits for a model call or for the players' answers
WaitsForModelOrPlayers(a) == InModelCall(a) \/ Pending(tasks[a])

\* C25: while a handler of channel A waits for a model call or for the
\* players, a handler of another channel B can go on: B's reply can be
\* generated and sent, and the two channels have different locks.
C25_OtherChannelsProceed ==
    \A a, b \in TaskIds :
        (/\ tasks[a].chan # tasks[b].chan
         /\ WaitsForModelOrPlayers(a)
         /\ tasks[b].kind = "n") =>
            /\ tasks[b].pc = "typing" => ENABLED BeginReply(b)
            /\ tasks[b].pc = "sending" => ENABLED (LoopFree /\ SendNext(b))
            /\ locks_by_channel[tasks[a].chan].id # locks_by_channel[tasks[b].chan].id

----------------------------------------------------------------------------
(* Inputs of the splitter.                                                 *)

MaxLines == 3
MaxMaxLen == 7
MinMaxLen == 3

\* the lines the inputs are built from: empty, plain, with leading or
\* trailing blanks, blank, a bare fence and a fence with a language tag
LineChoices ==
    { <<>>, <<"a">>, <<SP, "a">>, <<"a", SP>>, <<SP>>,
      FENCE, FENCE \o <<"p">> }

RECURSIVE JoinLines(_)
\* "\n".join(lines)
JoinLines(ls) ==
    IF ls = <<>> THEN <<>>
    ELSE IF Len(ls) = 1 THEN ls[1]
    ELSE ls[1] \o <<NL>> \o JoinLines(Tail(ls))

LineSeqs == UNION { [1..n -> LineChoices] : n \in 0..MaxLines }

Texts == { JoinLines(ls) : ls \in LineSeqs }
            \cup { JoinLines(ls) \o <<NL>> : ls \in LineSeqs }

InitSplit ==
    /\ text \in Texts
    /\ max_len \in MinMaxLen..MaxMaxLen
    /\ parts = <<>>
    /\ split_pc = "input"
    /\ call = NoCall
    /\ BotFresh
    /\ env = NoInputs

\* a call of split_into_messages(text, max_len)
SplitCall ==
    /\ split_pc = "input"
    /\ parts' = split_into_messages(text, max_len)
    /\ split_pc' = "returned"
    /\ UNCHANGED <<text, max_len, call>>
    /\ UNCHANGED <<histVars, botVars>>

NextSplit == SplitCall

SpecSplit == InitSplit /\ [][NextSplit]_vars

----------------------------------------------------------------------------
(* Properties of split_into_messages, checked under SpecSplit.             *)

\* a fence line, as the code detects it: line.strip().startswith(FENCE)
IsFenceLine(line) == StartsWith(Strip(line), FENCE)

FenceLines(t) ==
    LET ls == SplitLines(t) IN { i \in 1..Len(ls) : IsFenceLine(ls[i]) }

\* every fence opened in the segment is closed in it
Balanced(seg) == Cardinality(FenceLines(seg)) % 2 = 0

NoLongLine(t, maxLen) ==
    \A i \in 1..Len(SplitLines(t)) : Len(SplitLines(t)[i]) <= maxLen

\* C5: every segment returned by split_into_messages has balanced code
\* fences: a fence line opened in a segment is closed within that segment.
C5_SegmentsBalanced ==
    split_pc = "returned" => \A i \in 1..Len(parts) : Balanced(parts[i])

\* C6: when no line of the input is longer than max_len, every
\* segment has length <= max_len, inserted fence lines included.
C6_SegmentsWithinMaxLen ==
    (split_pc = "returned" /\ NoLongLine(text, max_len))
        => \A i \in 1..Len(parts) : Len(parts[i]) <= max_len

\* C7 as stated: an input shorter than max_len yields exactly one segment,
\* the input with leading and trailing whitespace trimmed.
C7_ShortInputIsTrimmed ==
    (split_pc = "returned" /\ Len(text) < max_len)
        => (Len(parts) = 1 /\ parts[1] = Strip(text))

\* the input followed by a line break unless it ends with one
WithFinalBreak(t) == IF EndsWith(t, <<NL>>) THEN t ELSE t \o <<NL>>

\* C7 amended: an input shorter than max_len that is empty or whitespace
\* only yields no segment; any other yields exactly one segment, which is
\* the input with trailing line breaks removed (leading whitespace and
\* trailing blanks of the last line are kept), or, when the input has an odd
\* number of fence lines and does not end with the fence marker, the input
\* followed by a closing fence line.
C7_ShortInputOneSegment ==
    (split_pc = "returned" /\ Len(text) < max_len)
        => IF Strip(text) = <<>>
           THEN parts = <<>>
           ELSE IF ~Balanced(text) /\ ~EndsWith(RStrip(text), FENCE)
                THEN parts = << WithFinalBreak(text) \o FENCE >>
                ELSE parts = << RStripNL(text) >>

\* C7 witness: a short input with leading whitespace and a final line break
\* has been split into one segment that differs from the trimmed input.
C7_Witness ==
    /\ split_pc = "returned"
    /\ Len(text) < max_len
    /\ Len(parts) = 1
    /\ parts[1] # Strip(text)
    /\ parts[1] # text

\* the locals of the splitter when it comes to line i of the input
BeforeLine(t, i, maxLen) ==
    SplitLoop(SplitInit, SubSeq(SplitLines(t), 1, i - 1), 1, maxLen)

\* the splitter flushes the chunk when it comes to line i
FlushesAt(t, i, maxLen) ==
    MustFlush(BeforeLine(t, i, maxLen), SplitLines(t)[i] \o <<NL>>, maxLen)

\* the last line of a segment
LastLine(seg) ==
    LET ls == SplitLines(seg) IN IF ls = <<>> THEN <<>> ELSE ls[Len(ls)]

\* the line of the input that opened the block line i lies in
OpenerBefore(t, i, maxLen) ==
    LET ls == SplitLines(t)
        opens == { j \in 1..(i - 1) :
                     IsFenceLine(ls[j]) /\ ~BeforeLine(t, j, maxLen).in_code }
    IN  ls[CHOOSE j \in opens : \A k \in opens : k <= j]

\* C28: when split_into_messages flushes a segment while inside a fenced
\* block, the outgoing segment ends with a closing fence line and the next
\* segment begins with the exact fence line that opened the block; the
\* fence state is toggled only after the split decision for the current
\* line, so a fence line that itself triggers the split is placed in the
\* new segment.
C28_FlushInsideFence ==
    split_pc = "returned" =>
        \A i \in 1..Len(SplitLines(text)) :
            FlushesAt(text, i, max_len) =>
                LET st == BeforeLine(text, i, max_len)
                    k == Len(st.parts) + 1
                    line == SplitLines(text)[i]
                IN  /\ st.in_code =>
                          /\ k + 1 <= Len(parts)
                          /\ LastLine(parts[k]) = FENCE
                          /\ Balanced(parts[k])
                          /\ SplitLines(parts[k + 1])[1] =
                                OpenerBefore(text, i, max_len)
                    /\ IsFenceLine(line) =>
                          /\ k + 1 <= Len(parts)
                          /\ SplitLines(parts[k + 1])[IF st.in_code THEN 2 ELSE 1] = line

\* what holds of a flush: inside a block the next segment begins with the
\* line that opened the block, and a fence line that triggers the flush is
\* the next line of the new segment
C28_ReopenedAndPlaced ==
    split_pc = "returned" =>
        \A i \in 1..Len(SplitLines(text)) :
            FlushesAt(text, i, max_len) =>
                LET st == BeforeLine(text, i, max_len)
                    k == Len(st.parts) + 1
                    line == SplitLines(text)[i]
                IN  /\ st.in_code =>
                          /\ k + 1 <= Len(parts)
                          /\ SplitLines(parts[k + 1])[1] =
                                OpenerBefore(text, i, max_len)
                    /\ IsFenceLine(line) =>
                          /\ k + 1 <= Len(parts)
                          /\ SplitLines(parts[k + 1])[IF st.in_code THEN 2 ELSE 1] = line

\* C29: every segment returned by split_into_messages is non-empty and not
\* whitespace-only, for every input text and max_len; an empty or
\* whitespace-only input yields no segment at all.
C29_NoBlankSegment ==
    split_pc = "returned" =>
        /\ \A i \in 1..Len(parts) : Strip(parts[i]) # <<>>
        /\ Strip(text) = <<>> => parts = <<>>

\* the lines at which the splitter flushes, and the k-th of them
FlushLines(t, maxLen) ==
    { i \in 1..Len(SplitLines(t)) : FlushesAt(t, i, maxLen) }

NthFlush(t, maxLen, k) ==
    CHOOSE i \in FlushLines(t, maxLen) :
        Cardinality({ j \in FlushLines(t, maxLen) : j <= i }) = k

\* the locals from which segment k was emitted: those of the k-th flush,
\* or those after the loop
EmittedFrom(t, maxLen, k) ==
    IF k <= Cardinality(FlushLines(t, maxLen))
    THEN BeforeLine(t, NthFlush(t, maxLen, k), maxLen)
    ELSE SplitLoop(SplitInit, SplitLines(t), 1, maxLen)

\* the splitter added a closing fence line to segment k
ClosingInserted(t, maxLen, k) ==
    LET st == EmittedFrom(t, maxLen, k)
    IN  st.in_code /\ ~EndsWith(RStrip(st.current), FENCE)

\* the splitter began segment k with a re-opened fence line
ReopenInserted(t, maxLen, k) ==
    k > 1 /\ EmittedFrom(t, maxLen, k - 1).in_code

\* the lines of segment k without the fence lines the splitter inserted
OwnLines(t, maxLen, ps, k) ==
    LET ls == SplitLines(ps[k])
        from == IF ReopenInserted(t, maxLen, k) THEN 2 ELSE 1
        to == IF ClosingInserted(t, maxLen, k) THEN Len(ls) - 1 ELSE Len(ls)
    IN  SubSeq(ls, from, to)

RECURSIVE KeptLinesFrom(_, _, _, _)
KeptLinesFrom(t, maxLen, ps, k) ==
    IF k > Len(ps) THEN <<>>
    ELSE OwnLines(t, maxLen, ps, k) \o KeptLinesFrom(t, maxLen, ps, k + 1)

\* the lines of all segments without the inserted fence lines
KeptLines == KeptLinesFrom(text, max_len, parts, 1)

\* C30 as stated: split_into_messages loses, duplicates and reorders
\* nothing: the lines of the returned segments, after removing the closing
\* and re-opening fence lines the splitter inserted, are exactly the lines
\* of the input in their original order.
C30_LinesExactlyKept ==
    split_pc = "returned" => KeptLines = SplitLines(text)

\* the lines of ls that are not blank
RECURSIVE NonBlank(_)
NonBlank(ls) ==
    IF ls = <<>> THEN <<>>
    ELSE IF Strip(Head(ls)) = <<>> THEN NonBlank(Tail(ls))
    ELSE <<Head(ls)>> \o NonBlank(Tail(ls))

\* a is b with some lines left out
RECURSIVE IsSubseq(_, _)
IsSubseq(a, b) ==
    IF a = <<>> THEN TRUE
    ELSE IF b = <<>> THEN FALSE
    ELSE IF Head(a) = Head(b) THEN IsSubseq(Tail(a), Tail(b))
    ELSE IsSubseq(a, Tail(b))

\* C30 amended: the lines of the returned segments, after removing the
\* inserted closing and re-opening fence lines, are lines of the input in
\* their original order, and every line of the input that is not blank is
\* among them exactly once; only empty lines at the end of a segment and a
\* blank last chunk are left out.
C30_LinesKeptButBlank ==
    split_pc = "returned" =>
        /\ IsSubseq(KeptLines, SplitLines(text))
        /\ NonBlank(KeptLines) = NonBlank(SplitLines(text))

\* C30 witness: an input has been split inside a block, with a re-opened
\* and a closing fence line inserted, and an empty line of the input was
\* left out at the end of a segment
C30_Witness ==
    /\ split_pc = "returned"
    /\ Len(parts) >= 2
    /\ \E k \in 1..Len(parts) : ClosingInserted(text, max_len, k)
    /\ \E k \in 1..Len(parts) : ReopenInserted(text, max_len, k)
    /\ KeptLines # SplitLines(text)
    /\ NonBlank(SplitLines(text)) # <<>>

----------------------------------------------------------------------------
(* Calls of is_guess_correct (src/bot.py 459-477) on its own.              *)

MaxAnswerWords == 2
MaxGuessWords == 2

\* the words the answers and the guesses are made of
TAB == <<"T", "a", "b">>
AnswerWords == { HASH, TAB, <<"o", "f">>, <<"x">> }
GuessWords == { <<"H", "A", "S", "H">>, <<"t", "a", "b">>, <<"o", "f">>, <<"x">> }
Separators == { SP, "," }

RECURSIVE JoinWords(_, _)
JoinWords(ws, sep) ==
    IF ws = <<>> THEN <<>>
    ELSE IF Len(ws) = 1 THEN ws[1]
    ELSE ws[1] \o <<sep>> \o JoinWords(Tail(ws), sep)

WordSeqs(words, n) == UNION { [1..k -> words] : k \in 0..n }

\* the two calls the documentation of the function gives
EXAMPLE_ANSWER == <<"h", "a", "s", "h", SP, "t", "a", "b", "l", "e">>
EXAMPLE_GUESS == <<"i", "t", "'", "s", SP, "a", SP, "H", "A", "S", "H", SP, "t", "a", "b", "l", "e", SP,
      "o", "b", "v", "i", "o", "u", "s", "l", "y">>
EXAMPLE_WRONG == <<"t", "a", "b", "l", "e">>

ExampleCalls ==
    { [op |-> "is_guess_correct", guess |-> g, answer |-> EXAMPLE_ANSWER,
       words |-> <<SubSeq(EXAMPLE_ANSWER, 1, 4), SubSeq(EXAMPLE_ANSWER, 6, 10)>>,
       sep |-> SP, pc |-> "input", result |-> FALSE]
         : g \in { EXAMPLE_GUESS, EXAMPLE_WRONG } }

\* the calls: an answer of some words with one separator, a guess of words
\* with blanks between them
GuessCalls ==
    { [op |-> "is_guess_correct", guess |-> JoinWords(gs, SP),
       answer |-> JoinWords(ws, sep), words |-> ws, sep |-> sep,
       pc |-> "input", result |-> FALSE]
         : gs \in WordSeqs(GuessWords, MaxGuessWords),
           ws \in WordSeqs(AnswerWords, MaxAnswerWords),
           sep \in Separators }
        \cup ExampleCalls

InitGuess ==
    /\ text = <<>> /\ max_len = 0 /\ parts = <<>> /\ split_pc = "idle"
    /\ BotFresh
    /\ env = NoInputs
    /\ call \in GuessCalls

\* a call of is_guess_correct(guess, answer)
GuessCall ==
    /\ call.op = "is_guess_correct" /\ call.pc = "input"
    /\ call' = [call EXCEPT !.result = is_guess_correct(call.guess, call.answer),
                            !.pc = "returned"]
    /\ UNCHANGED <<text, max_len, parts, split_pc>>
    /\ UNCHANGED <<histVars, botVars>>

NextGuess == GuessCall

SpecGuess == InitGuess /\ [][NextGuess]_vars

----------------------------------------------------------------------------
(* Properties of is_guess_correct, checked under SpecGuess.                *)

\* whitespace or a comma
IsSeparator(ch) == ch \in { SP, NL, "," }

\* the tokens of a: the longest runs of characters that are no separators
Tokens(a) ==
    { SubSeq(a, i, j) : <<i, j>> \in
        { p \in (1..Len(a)) \X (1..Len(a)) :
             /\ p[1] <= p[2]
             /\ \A k \in p[1]..p[2] : ~IsSeparator(a[k])
             /\ (p[1] = 1 \/ IsSeparator(a[p[1] - 1]))
             /\ (p[2] = Len(a) \/ IsSeparator(a[p[2] + 1])) } }

\* the tokens of length 3 or more of the lower-cased answer
Keywords(a) == { t \in Tokens(Lower(a)) : Len(t) >= 3 }

\* w occurs in g
IsSubstring(w, g) ==
    \E i \in 0..(Len(g) - Len(w)) : \A k \in 1..Len(w) : g[i + k] = w[k]

\* the keyword test of the specification
KeywordTest(guess, answer) ==
    IF Keywords(answer) # {}
    THEN \A t \in Keywords(answer) : IsSubstring(t, Lower(guess))
    ELSE IsSubstring(Lower(answer), Lower(guess))

GuessReturned == call.op = "is_guess_correct" /\ call.pc = "returned"

\* C13 as stated: for every guess and every answer, the empty answer
\* included, is_guess_correct is the keyword test: all tokens of length 3 or
\* more of the answer occur in the lower-cased guess, or, when there is no such
\* token, the whole lower-cased answer occurs in it.
C13_KeywordTestAlways ==
    GuessReturned => (call.result = KeywordTest(call.guess, call.answer))

\* C13 amended: for the empty answer is_guess_correct is false; for every
\* other answer it is the keyword test, the tokens being those of the
\* lower-cased answer.
C13_KeywordTestUnlessEmpty ==
    GuessReturned =>
        call.result = (call.answer # <<>> /\ KeywordTest(call.guess, call.answer))

\* C13 witness: a guess has been graded against the empty answer and found
\* wrong.
C13_Witness ==
    GuessReturned /\ call.answer = <<>> /\ ~call.result

\* str.upper for one character
UpperChar(ch) ==
    IF \E i \in DOMAIN LOWER : LOWER[i] = ch
    THEN UPPER[CHOOSE i \in DOMAIN LOWER : LOWER[i] = ch]
    ELSE ch

Upper(str) == [i \in 1..Len(str) |-> UpperChar(str[i])]

\* the answers with the same words in another order
Reordered(ws, sep) ==
    { JoinWords([i \in 1..Len(ws) |-> ws[f[i]]], sep) : f \in Permutations(1..Len(ws)) }

\* the result does not depend on the case of the letters
CaseInsensitive ==
    /\ is_guess_correct(Upper(call.guess), call.answer) = call.result
    /\ is_guess_correct(Lower(call.guess), call.answer) = call.result
    /\ is_guess_correct(call.guess, Upper(call.answer)) = call.result
    /\ is_guess_correct(call.guess, Lower(call.answer)) = call.result

\* the result does not depend on the order of the words of the answer
OrderInsensitive ==
    \A a \in Reordered(call.words, call.sep) :
        is_guess_correct(call.guess, a) = call.result

\* the two examples
ExamplesHold ==
    /\ (call.guess = EXAMPLE_GUESS /\ call.answer = EXAMPLE_ANSWER) => call.result
    /\ (call.guess = EXAMPLE_WRONG /\ call.answer = EXAMPLE_ANSWER) => ~call.result

\* C14 as stated: for every guess and every answer the result of
\* is_guess_correct does not change when the case of letters of the guess or
\* of the answer changes, nor when the words of the answer are reordered;
\* the two examples have the results true and false.
C14_CaseAndOrderInsensitive ==
    GuessReturned => (CaseInsensitive /\ OrderInsensitive /\ ExamplesHold)

\* C14 amended: the result never depends on the case of letters; it does not
\* depend on the order of the words of the answer when the answer has a
\* token of length 3 or more (without one the whole answer is searched for
\* in the guess, and the order of its words matters); the examples hold.
C14_CaseInsensitiveOrderOfKeywords ==
    GuessReturned =>
        /\ CaseInsensitive
        /\ Keywords(call.answer) # {} => OrderInsensitive
        /\ ExamplesHold

\* C14 witness: a guess with the two keywords of the answer in the other
\* order and the other case has been found correct.
C14_Witness ==
    /\ GuessReturned /\ call.result
    /\ call.words = <<HASH, TAB>>
    /\ call.guess = JoinWords(<< <<"t", "a", "b">>, <<"H", "A", "S", "H">> >>, SP)

----------------------------------------------------------------------------
(* Calls of update_leaderboard on its own (src/bot.py 33-65).              *)

\* the most points of a user in the scores of a call
MaxPoints == 2

\* the entries a stored board holds before the call
StoredEntries == { NoEntry, [xp |-> 30, wins |-> 1, games |-> 2] }

\* the keys of the users (str(user_id))
UserKeys == { ToString(u) : u \in Users }

\* the functions from a subset of D to R
PartialFns(D, R) == UNION { [S -> R] : S \in SUBSET D }

\* the boards of a guild in the file
StoredBoards == PartialFns(UserKeys, StoredEntries)

\* the files: a board for some of the guild keys
StoredFiles == PartialFns(GuildKeys, StoredBoards)

\* the calls update_leaderboard(guild_id, scores, winners)
BoardCalls ==
    { [op |-> "update_leaderboard", guild_id |-> g, scores |-> sc,
       winners |-> w, before |-> <<>>, pc |-> "input", result |-> <<>>]
         : g \in { NoGuild, GuildOf(1) },
           sc \in PartialFns(Users, 0..MaxPoints),
           w \in SUBSET Users }

InitBoard ==
    /\ text = <<>> /\ max_len = 0 /\ parts = <<>> /\ split_pc = "idle"
    /\ history_by_channel = [c \in Channels |-> <<>>]
    /\ appended = [c \in Channels |-> <<>>]
    /\ locks_by_channel = [c \in Channels |-> NoLock]
    /\ tasks = <<>>
    /\ outbox = [c \in Channels |-> <<>>]
    /\ leaderboard \in StoredFiles
    /\ env = NoInputs
    /\ call \in BoardCalls

\* a call of update_leaderboard: the file is loaded, updated and saved, and
\* the guild's board is returned
BoardCall ==
    /\ call.op = "update_leaderboard" /\ call.pc = "input"
    /\ leaderboard' =
          update_leaderboard(leaderboard, call.guild_id, call.scores, call.winners)
    /\ call' = [call EXCEPT !.before = leaderboard,
                            !.result = leaderboard'[GuildKey(call.guild_id)],
                            !.pc = "returned"]
    /\ UNCHANGED <<text, max_len, parts, split_pc>>
    /\ UNCHANGED <<histVars, locks_by_channel, tasks, outbox, env>>

NextBoard == BoardCall

SpecBoard == InitBoard /\ [][NextBoard]_vars

----------------------------------------------------------------------------
(* Properties of update_leaderboard, checked under SpecBoard.              *)

\* update_leaderboard has returned
BoardReturned == call.op = "update_leaderboard" /\ call.pc = "returned"

\* the guild's board in file f, empty if the guild has none
BoardIn(f, gkey) == IF gkey \in DOMAIN f THEN f[gkey] ELSE <<>>

\* the entry of key k in board b, zero for a user not seen before
EntryIn(b, k) == IF k \in DOMAIN b THEN b[k] ELSE [xp |-> 0, wins |-> 0, games |-> 0]

\* user u's entry has gained what the rule gives for p points
RuleApplied(old, new, p, won) ==
    /\ new.games = old.games + 1
    /\ new.xp = old.xp + 10 * p + (IF won THEN 20 ELSE 0)
    /\ new.wins = old.wins + (IF won THEN 1 ELSE 0)

\* C15: update_leaderboard gives every user of the points map, with p
\* points, games +1 and xp +10p, and wins +1 and xp +20 more if the user is
\* among the winners, from zero for a user seen for the first time; the
\* entries of the guild's users who are not in the map are unchanged; two
\* points as the sole winner from nothing give xp 40, wins 1, games 1.
C15_LeaderboardRule ==
    BoardReturned =>
        LET gkey == GuildKey(call.guild_id)
            old == BoardIn(call.before, gkey)
            new == BoardIn(leaderboard, gkey)
            keys == { ToString(u) : u \in DOMAIN call.scores }
        IN  /\ DOMAIN new = DOMAIN old \cup keys
            /\ call.result = new
            /\ \A u \in DOMAIN call.scores :
                  RuleApplied(EntryIn(old, ToString(u)), new[ToString(u)],
                              call.scores[u], u \in call.winners)
            /\ \A k \in DOMAIN old \ keys : new[k] = old[k]
            /\ \A u \in DOMAIN call.scores :
                  (/\ call.scores[u] = 2 /\ call.winners = {u}
                   /\ ToString(u) \notin DOMAIN old)
                  => new[ToString(u)] = [xp |-> 40, wins |-> 1, games |-> 1]

\* a call has returned that gave two points and the win to a user seen for
\* the first time and left another user's entry of the guild alone
C15_Witness ==
    /\ BoardReturned
    /\ LET gkey == GuildKey(call.guild_id)
           old == BoardIn(call.before, gkey)
       IN  /\ call.scores = (11 :> 2)
           /\ call.winners = {11}
           /\ DOMAIN old = {"12"}
           /\ old["12"].games = 2
           /\ leaderboard[gkey]["11"].xp = 40

----------------------------------------------------------------------------
(* Calls of get_near_reply on its own (src/bot.py 669-727), as the plain    *)
(* handlers and the eli5 handlers make them.                               *)

\* the persona text
NEAR_PROMPT == <<"NEAR_PROMPT">>

\* "For this reply only, explain the topic as if you were speaking to a
\* five-year-old child. ..."
ELI5_DIRECTIVE == <<"For this reply only", "explain the topic", "five-year-old">>

\* {"role": "system", "content": NEAR_PROMPT}
PersonaMessage == [role |-> "system", content |-> NEAR_PROMPT]

\* the extra_system list of eli5_cmd and of the "n eli5" branch
Eli5Extra == << [role |-> "system", content |-> ELI5_DIRECTIVE] >>

\* {"role": "user", "content": f"{user_name}: {user_text}"}
UserTurn(user_name, user_text) ==
    [role |-> "user", content |-> <<user_name, ":", SP>> \o user_text]

\* an input that puts the extra system messages before the persona
ModelInputExtraFirst(extra_system, history, user_turn) ==
    extra_system \o <<PersonaMessage>> \o history \o <<user_turn>>

\* system_messages + history + [user_turn]
ModelInput(extra_system, history, user_turn) ==
    (<<PersonaMessage>> \o extra_system) \o history \o <<user_turn>>

\* the exceptions a failed model call raises (subclasses of Exception)
ExceptionKinds == { "APIConnectionError", "RateLimitError", "TypeError" }

\* what client_oai.responses.create does: a response with or without its
\* usage, or an exception
ModelOutcomes ==
    { [ok |-> TRUE, usage |-> u, kind |-> "none"] : u \in BOOLEAN }
        \cup { [ok |-> FALSE, usage |-> FALSE, kind |-> k] : k \in ExceptionKinds }

\* "except Exception as e" catches it
Caught(kind) == kind \in ExceptionKinds

\* reply_text: the output text, with the cost footer if the response has a
\* usage, or the fallback text with type(e).__name__
ReplyTextOf(out) ==
    IF out.ok
    THEN IF out.usage THEN <<"output_text", "cost_footer">> ELSE <<"output_text">>
    ELSE <<"Oops, something went wrong talking to OpenAI:", out.kind>>

\* get_near_reply(channel_id, user_name, user_text, extra_system): the
\* input given to the model, the text returned, whether an exception leaves
\* the function, and the new value of history_by_channel[channel_id]
get_near_reply(history, user_name, user_text, extra_system, out) ==
    LET reply_text == ReplyTextOf(out)
    IN  [input |-> ModelInput(extra_system, LastEntries(history),
                              UserTurn(user_name, user_text)),
         raised |-> ~out.ok /\ ~Caught(out.kind),
         reply_text |-> reply_text,
         history |-> get_near_reply_history(history, reply_text)]

\* the lengths of the channel's history when get_near_reply is called
ReplyHistoryLens == { 0, 1, HistoryLimit, HistoryLimit + 1 }

\* a history of n turns of context
ContextHistory(n) == [i \in 1..n |-> ContextTurn(DisplayName(11), i)]

\* the calls: a channel, the member who asks, and what the model call does
ReplyCalls ==
    { [op |-> "get_near_reply", channel_id |-> c, user_name |-> DisplayName(u),
       user_text |-> HASH, extra_system |-> <<>>, outcome |-> out,
       before |-> <<>>, input |-> <<>>, raised |-> FALSE, result |-> <<>>,
       pc |-> "input"]
         : c \in Channels, u \in Users, out \in ModelOutcomes }

InitReply ==
    /\ text = <<>> /\ max_len = 0 /\ parts = <<>> /\ split_pc = "idle"
    /\ call \in ReplyCalls
    /\ \E n \in ReplyHistoryLens :
          history_by_channel =
              [c \in Channels |-> IF c = call.channel_id THEN ContextHistory(n) ELSE <<>>]
    /\ appended = [c \in Channels |-> <<>>]
    /\ locks_by_channel = [c \in Channels |-> NoLock]
    /\ tasks = <<>>
    /\ outbox = [c \in Channels |-> <<>>]
    /\ leaderboard = <<>>
    /\ env = NoInputs

\* one call of get_near_reply with the list extra_system; the function has
\* no await in it, so the call is one step
ReplyCall(extra_system) ==
    /\ call.op = "get_near_reply" /\ call.pc = "input"
    /\ LET c == call.channel_id
           r == get_near_reply(history_by_channel[c], call.user_name,
                               call.user_text, extra_system, call.outcome)
       IN  /\ history_by_channel' = [history_by_channel EXCEPT ![c] = r.history]
           /\ call' = [call EXCEPT !.extra_system = extra_system,
                                   !.before = history_by_channel[c],
                                   !.input = r.input,
                                   !.raised = r.raised,
                                   !.result = r.reply_text,
                                   !.pc = "returned"]
    /\ UNCHANGED <<text, max_len, parts, split_pc>>
    /\ UNCHANGED <<appended, botVars>>

\* near_cmd and the plain "n " branch: get_near_reply(channel_id, user_name,
\* user_text)
CallPlain == ReplyCall(<<>>)

\* eli5_cmd and the "n eli5" branch: extra_system holds the directive
CallEli5 == ReplyCall(Eli5Extra)

NextReply ==
    \/ CallPlain
    \/ CallEli5

SpecReply == InitReply /\ [][NextReply]_vars

----------------------------------------------------------------------------
(* Properties of get_near_reply, checked under SpecReply.                  *)

\* get_near_reply has returned
ReplyReturned == call.op = "get_near_reply" /\ call.pc = "returned"

\* the text names the failure kind
NamesFailure(txt, kind) == \E i \in 1..Len(txt) : txt[i] = kind

\* C19: get_near_reply does not raise when the model call fails: it returns
\* the fallback text, which names the kind of the failure; whether the call
\* succeeded or failed, the text returned has been appended to the channel's
\* history as an assistant turn, so the last turn of the history is the
\* text the caller received.
C19_ReplyStoredNeverRaises ==
    ReplyReturned =>
        LET h == history_by_channel[call.channel_id]
        IN  /\ ~call.raised
            /\ ~call.outcome.ok =>
                  /\ call.result[1] = "Oops, something went wrong talking to OpenAI:"
                  /\ NamesFailure(call.result, call.outcome.kind)
            /\ Len(h) >= 1
            /\ h[Len(h)].role = "assistant"
            /\ h[Len(h)].content = call.result
            /\ SubSeq(h, 1, Len(h) - 1) = LastN(call.before, HistoryLimit)

\* a call whose model call failed has returned the fallback text
C19_Witness ==
    /\ ReplyReturned
    /\ call.outcome.kind = "RateLimitError"
    /\ NamesFailure(call.result, "RateLimitError")
    /\ Len(call.before) = HistoryLimit

\* C20: the input of the model is the persona system message, then the
\* extra system directives, then the snapshot of the channel's history,
\* then the new user turn "<name>: <text>"; for the eli5 calls the
\* directive follows the persona message, which is there unchanged.
C20_ModelInputOrder ==
    ReplyReturned =>
        LET snapshot == LastN(call.before, HistoryLimit)
            extra == call.extra_system
            n == Len(call.input)
        IN  /\ n = 1 + Len(extra) + Len(snapshot) + 1
            /\ call.input[1] = [role |-> "system", content |-> NEAR_PROMPT]
            /\ \A i \in 1..Len(extra) : call.input[1 + i] = extra[i]
            /\ \A i \in 1..Len(snapshot) :
                  call.input[1 + Len(extra) + i] = snapshot[i]
            /\ call.input[n].role = "user"
            /\ call.input[n].content = <<call.user_name, ":", SP>> \o call.user_text
            /\ extra # <<>> =>
                  call.input[2] = [role |-> "system", content |-> ELI5_DIRECTIVE]

\* an eli5 call has returned whose history had to be cut to its last 40
\* turns
C20_Witness ==
    /\ ReplyReturned
    /\ call.extra_system = Eli5Extra
    /\ Len(call.before) > HistoryLimit
    /\ call.input[2].content = ELI5_DIRECTIVE

----------------------------------------------------------------------------
(* The leaderboard file with its failures (src/bot.py 15-30, 46-76): calls  *)
(* of update_leaderboard and of format_leaderboard_for_guild on a file that *)
(* is missing, malformed or good, with a write that succeeds or fails.      *)

\* the files before the call
StoreFiles ==
    { NoFile, BrokenFile } \cup { FileOf(f) : f \in StoredFiles }

\* the calls; file is the file as the call left it
StoreCalls ==
    { [op |-> "store_update", guild_id |-> GuildOf(1), scores |-> sc,
       winners |-> Winners(sc), write |-> w, before |-> f, file |-> f,
       result |-> <<>>, pc |-> "input"]
         : sc \in { (11 :> 2), (11 :> 1) @@ (12 :> 2) },
           w \in WriteOutcomes, f \in StoreFiles }
        \cup
    { [op |-> "store_format", guild_id |-> GuildOf(1), scores |-> <<>>,
       winners |-> {}, write |-> "written", before |-> f, file |-> f,
       result |-> <<>>, pc |-> "input"]
         : f \in StoreFiles }

InitStore ==
    /\ text = <<>> /\ max_len = 0 /\ parts = <<>> /\ split_pc = "idle"
    /\ BotFresh
    /\ env = NoInputs
    /\ call \in StoreCalls

\* update_leaderboard(guild_id, scores, winners)
StoreUpdate ==
    /\ call.op = "store_update" /\ call.pc = "input"
    /\ LET r == update_leaderboard_file(call.file, call.guild_id, call.scores,
                                        call.winners, call.write)
       IN  call' = [call EXCEPT !.file = r.file, !.result = r.result,
                                !.pc = "returned"]
    /\ UNCHANGED <<text, max_len, parts, split_pc>>
    /\ UNCHANGED <<histVars, botVars>>

\* format_leaderboard_for_guild(guild) on a file whose load gives no board
\* of the guild
StoreFormatEmpty ==
    /\ call.op = "store_format" /\ call.pc = "input"
    /\ LET data == load_leaderboard(call.file)
           gkey == GuildKey(call.guild_id)
       IN  /\ (IF gkey \in DOMAIN data THEN DOMAIN data[gkey] = {} ELSE TRUE)
           /\ call' = [call EXCEPT
                 !.result = format_leaderboard_for_guild(data, call.guild_id,
                                                         DefaultTopN).text,
                 !.pc = "returned"]
    /\ UNCHANGED <<text, max_len, parts, split_pc>>
    /\ UNCHANGED <<histVars, botVars>>

NextStore ==
    \/ StoreUpdate
    \/ StoreFormatEmpty

SpecStore == InitStore /\ [][NextStore]_vars

----------------------------------------------------------------------------
(* Properties of the leaderboard file, checked under SpecStore.            *)

\* the board update_leaderboard returns when it starts from an empty store
FromEmptyStore(guild_id, scores, winners) ==
    update_leaderboard(<<>>, guild_id, scores, winners)[GuildKey(guild_id)]

\* C24: the failures of the leaderboard file are not surfaced: with a
\* missing or malformed file format_leaderboard_for_guild returns the
\* no-recorded-games text and update_leaderboard proceeds as from an empty
\* store; when the write fails, the stored data is not changed by the failed
\* write and update_leaderboard returns the updated board.
C24_FailuresNotSurfaced ==
    (call.op \in {"store_update", "store_format"} /\ call.pc = "returned") =>
        /\ (call.before.status # "ok" /\ call.op = "store_format") =>
              call.result = NO_GAMES_TEXT
        /\ (call.before.status # "ok" /\ call.op = "store_update") =>
              call.result = FromEmptyStore(call.guild_id, call.scores, call.winners)
        /\ (call.op = "store_update" /\ call.write # "written") =>
              /\ call.file = call.before
              /\ \A u \in DOMAIN call.scores : ToString(u) \in DOMAIN call.result

\* the boards of the guilds other than gkey in what load_leaderboard reads
\* from file f
OtherBoards(f, gkey) ==
    LET data == load_leaderboard(f)
    IN  [g \in DOMAIN data \ {gkey} |-> data[g]]

\* C33: update_leaderboard for one guild key leaves the stored boards of
\* all other guild keys unchanged: after any update, every guild key other
\* than the updated one maps to the same user entries as before.
C33_OtherGuildsUnchanged ==
    (call.op = "store_update" /\ call.pc = "returned") =>
        OtherBoards(call.file, GuildKey(call.guild_id))
            = OtherBoards(call.before, GuildKey(call.guild_id))

\* the same for the updates whose write does not fail after the open
C33_OtherGuildsUnchangedIfWritten ==
    (call.op = "store_update" /\ call.pc = "returned"
        /\ call.write # "dump_raises") =>
        OtherBoards(call.file, GuildKey(call.guild_id))
            = OtherBoards(call.before, GuildKey(call.guild_id))

----------------------------------------------------------------------------
(* Calls of format_leaderboard_for_guild on its own (src/bot.py 68-107).   *)

\* the most items of the boards that are listed in every order
MaxListed == 3

\* the entries of the listed boards
ListEntries ==
    { [xp |-> 10, wins |-> 0, games |-> 1], [xp |-> 30, wins |-> 0, games |-> 3],
      [xp |-> 30, wins |-> 1, games |-> 1], [xp |-> 40, wins |-> 1, games |-> 1] }

\* the boards of up to MaxListed users with every choice of entries
SmallBoards ==
    UNION { { [i \in 1..n |-> [uid |-> 10 + i, stats |-> e[i]]]
                : e \in [1..n -> ListEntries] } : n \in 0..MaxListed }

\* boards with more users than the default top_n lists: XP rising with the
\* position, XP falling, and equal XP with the wins alternating
LongBoards ==
    { [i \in 1..n |-> [uid |-> 10 + i,
                       stats |-> [xp |-> 10 * i, wins |-> 0, games |-> 1]]]
        : n \in { DefaultTopN, DefaultTopN + 1, DefaultTopN + 2 } }
    \cup
    { [i \in 1..n |-> [uid |-> 10 + i,
                       stats |-> [xp |-> 10 * (n - i), wins |-> 1, games |-> 1]]]
        : n \in { DefaultTopN, DefaultTopN + 1, DefaultTopN + 2 } }
    \cup
    { [i \in 1..n |-> [uid |-> 10 + i,
                       stats |-> [xp |-> 30, wins |-> i % 2, games |-> 2]]]
        : n \in { DefaultTopN, DefaultTopN + 1, DefaultTopN + 2 } }

\* the calls format_leaderboard_for_guild(guild, top_n) on a listed board,
\* and the calls after a duel on an empty store that user u won with a point
ListCalls ==
    { [op |-> "format", items |-> b, guild_id |-> g, top_n |-> n, user |-> 0,
       result |-> [text |-> <<>>, lines |-> <<>>], pc |-> "input"]
         : b \in SmallBoards, g \in { NoGuild, GuildOf(1) },
           n \in (0..MaxListed) \cup { DefaultTopN } }
        \cup
    { [op |-> "format", items |-> b, guild_id |-> g, top_n |-> DefaultTopN,
       user |-> 0, result |-> [text |-> <<>>, lines |-> <<>>], pc |-> "input"]
         : b \in LongBoards, g \in { NoGuild, GuildOf(1) } }
        \cup
    { [op |-> "duel_then_format", items |-> <<>>, guild_id |-> g,
       top_n |-> DefaultTopN, user |-> u,
       result |-> [text |-> <<>>, lines |-> <<>>], pc |-> "input"]
         : u \in Users, g \in { NoGuild, GuildOf(1) } }

InitListing ==
    /\ text = <<>> /\ max_len = 0 /\ parts = <<>> /\ split_pc = "idle"
    /\ BotFresh
    /\ env = NoInputs
    /\ call \in ListCalls

\* format_leaderboard_for_guild(guild, top_n) on the board call.items
FormatCall ==
    /\ call.op = "format" /\ call.pc = "input"
    /\ call' = [call EXCEPT
          !.result = Listing(call.items, call.guild_id, call.top_n),
          !.pc = "returned"]
    /\ UNCHANGED <<text, max_len, parts, split_pc>>
    /\ UNCHANGED <<histVars, botVars>>

\* the end of a duel in which call.user has the only point, on an empty
\* store, and then format_leaderboard_for_guild(guild)
DuelThenFormat ==
    /\ call.op = "duel_then_format" /\ call.pc = "input"
    /\ leaderboard' = StoreAfter(leaderboard, call.guild_id, (call.user :> 1))
    /\ call' = [call EXCEPT
          !.items = ItemsOf(leaderboard'[GuildKey(call.guild_id)]),
          !.result = format_leaderboard_for_guild(leaderboard', call.guild_id,
                                                  call.top_n),
          !.pc = "returned"]
    /\ UNCHANGED <<text, max_len, parts, split_pc>>
    /\ UNCHANGED <<histVars, locks_by_channel, tasks, outbox, env>>

NextListing ==
    \/ FormatCall
    \/ DuelThenFormat

SpecListing == InitListing /\ [][NextListing]_vars

----------------------------------------------------------------------------
(* Properties of format_leaderboard_for_guild, checked under SpecListing.  *)

\* format_leaderboard_for_guild has returned
ListingReturned == call.op \in {"format", "duel_then_format"} /\ call.pc = "returned"

\* line l of a listing shows item x of the board
Shows(l, x, guild_id) ==
    /\ l.name = (IF guild_id # NoGuild /\ x.uid \in Users
                 THEN <<DisplayName(x.uid)>> ELSE <<"User", x.uid>>)
    /\ l.xp = x.stats.xp /\ l.wins = x.stats.wins /\ l.games = x.stats.games

\* line a may stand above line b: more XP, or the same XP and no fewer wins
MayPrecede(a, b) == a.xp > b.xp \/ (a.xp = b.xp /\ a.wins >= b.wins)

\* C26: format_leaderboard_for_guild lists at most top_n entries of the
\* guild's board (10 by default), by XP descending and for equal XP by wins
\* descending, with the medal markers for the positions 1 to 3 and the
\* generic marker after them; after a duel on an empty store in which user
\* U scores 1 point as sole winner the listing shows U with 30 XP, 1 win,
\* 1 game.
C26_LeaderboardListing ==
    ListingReturned =>
        LET lines == call.result.lines
            items == call.items
            n == Len(lines)
        IN  /\ n <= call.top_n /\ n <= Len(items)
            /\ n = call.top_n \/ n = Len(items)
            /\ \A i \in 1..n : \E k \in 1..Len(items) :
                  Shows(lines[i], items[k], call.guild_id)
            /\ \A i, j \in 1..n : i # j => lines[i].name # lines[j].name
            /\ \A i, j \in 1..n : i < j => MayPrecede(lines[i], lines[j])
            /\ \A k \in 1..Len(items) :
                  (\A i \in 1..n : ~Shows(lines[i], items[k], call.guild_id)) =>
                      \A i \in 1..n : MayPrecede(lines[i], items[k].stats)
            /\ \A i \in 1..n :
                  lines[i].medal = (IF i = 1 THEN "gold" ELSE IF i = 2 THEN "silver"
                                    ELSE IF i = 3 THEN "bronze" ELSE "dot")
            /\ call.op = "duel_then_format" =>
                  /\ n = 1
                  /\ lines[1].xp = 30 /\ lines[1].wins = 1 /\ lines[1].games = 1
                  /\ lines[1].name = (IF call.guild_id # NoGuild
                                      THEN <<DisplayName(call.user)>>
                                      ELSE <<"User", call.user>>)

\* a board of more users than top_n has been listed: ten lines, the fourth
\* line with the generic marker, and a user with the same XP and fewer wins
\* left out
C26_Witness ==
    /\ ListingReturned
    /\ call.top_n = DefaultTopN
    /\ Len(call.items) > DefaultTopN
    /\ Len(call.result.lines) = DefaultTopN
    /\ call.result.lines[4].medal = "dot"
    /\ call.result.lines[1].wins = 1
    /\ \E k \in 1..Len(call.items) :
          /\ call.items[k].stats.wins = 0
          /\ call.items[k].stats.xp = call.result.lines[1].xp

----------------------------------------------------------------------------
(* generate_cs_question (src/bot.py 320-456) and the start of a round of   *)
(* run_speedduel (550-575), as a call on its own.  A text is a sequence of *)
(* characters; the three pictographs of the labels are one character each. *)

\* the pictographs before "**Question:**", "**Answer:**" and "Explanation:"
Q_MARK == "QM"
A_MARK == "KEY"
E_MARK == "BUBBLE"

QUESTION_WORD == <<"q", "u", "e", "s", "t", "i", "o", "n">>
ANSWER_WORD == <<"a", "n", "s", "w", "e", "r">>
EXPLANATION_WORD == <<"e", "x", "p", "l", "a", "n", "a", "t", "i", "o", "n">>

\* the prefixes the loop over the lines looks for, in lower case
QuestionPrefixes ==
    { <<Q_MARK, SP, "*", "*">> \o QUESTION_WORD \o <<":", "*", "*">>,
      QUESTION_WORD \o <<":">> }
AnswerPrefixes ==
    { <<A_MARK, SP, "*", "*">> \o ANSWER_WORD \o <<":", "*", "*">>,
      ANSWER_WORD \o <<":">> }
ExplanationPrefixes == { <<E_MARK, SP>> \o EXPLANATION_WORD \o <<":">> }

\* lower.startswith(p) for one of the prefixes
HasPrefix(line, prefixes) == \E p \in prefixes : StartsWith(Lower(line), p)

\* line.split(":", 1)[1] of a line that holds a colon
AfterColon(line) ==
    LET i == CHOOSE k \in 1..Len(line) :
                 line[k] = ":" /\ \A j \in 1..(k - 1) : line[j] # ":"
    IN  Drop(line, i + 1)

\* the fixed texts
NO_QUESTION_TEXT == <<"I could not create a question this time.">>
NO_EXPLANATION_TEXT == <<"Near offers no further explanation.">>

\* a loop over the lines that keeps what it has found
ParsedInit == [question |-> <<>>, answer |-> <<>>, explanation |-> <<>>]

\* one pass of "for line in text.splitlines()"
ParseLine(found, line) ==
    IF HasPrefix(line, QuestionPrefixes)
    THEN [found EXCEPT !.question = Strip(AfterColon(line))]
    ELSE IF HasPrefix(line, AnswerPrefixes)
    THEN [found EXCEPT !.answer = Strip(AfterColon(line))]
    ELSE IF HasPrefix(line, ExplanationPrefixes)
    THEN [found EXCEPT !.explanation = Strip(AfterColon(line))]
    ELSE found

RECURSIVE ParseLines(_, _)
ParseLines(found, lines) ==
    IF lines = <<>> THEN found
    ELSE ParseLines(ParseLine(found, Head(lines)), Tail(lines))

\* a value that is kept whatever it is
OrElseNothing(value, fallback) == value

\* "if not question: question = text", "if not explanation: explanation = ..."
OrElse(value, fallback) == IF value = <<>> THEN fallback ELSE value

\* generate_cs_question(difficulty) when the model call does out: the
\* triple returned, and whether an exception leaves the function
generate_cs_question(difficulty, out) ==
    IF ~out.ok
    THEN [raised |-> ~Caught(out.kind),
          question |-> NO_QUESTION_TEXT,
          answer |-> <<>>,
          explanation |-> <<"An error occurred: ", out.kind>>]
    ELSE LET txt == Strip(out.text)
             found == ParseLines(ParsedInit, SplitLines(txt))
         IN  [raised |-> FALSE,
              question |-> OrElse(found.question, txt),
              answer |-> found.answer,
              explanation |-> OrElse(found.explanation, NO_EXPLANATION_TEXT)]

\* the most lines of a response of the model
MaxQLines == 3

\* how a line of a response begins: the labels of the requested format,
\* the labels without the pictograph or the asterisks, an indented label,
\* or no label
LineHeads ==
    { <<Q_MARK, SP, "*", "*", "Q">> \o Tail(QUESTION_WORD) \o <<":", "*", "*">>,
      <<"Q">> \o Tail(QUESTION_WORD) \o <<":">>,
      <<SP, "Q">> \o Tail(QUESTION_WORD) \o <<":">>,
      <<A_MARK, SP, "*", "*", "A">> \o Tail(ANSWER_WORD) \o <<":", "*", "*">>,
      <<"A">> \o Tail(ANSWER_WORD) \o <<":">>,
      <<E_MARK, SP, "E">> \o Tail(EXPLANATION_WORD) \o <<":">>,
      <<"E">> \o Tail(EXPLANATION_WORD) \o <<":">>,
      <<>> }

\* the lines of a response: a head with a word after it, a question label
\* with nothing after it, and the empty line
ResponseLines ==
    { h \o <<SP, "w">> : h \in LineHeads }
        \cup { <<"Q">> \o Tail(QUESTION_WORD) \o <<":">>, <<>> }

RECURSIVE JoinResponse(_)
\* the lines with a line break between them
JoinResponse(ls) ==
    IF ls = <<>> THEN <<>>
    ELSE IF Len(ls) = 1 THEN ls[1]
    ELSE ls[1] \o <<NL>> \o JoinResponse(Tail(ls))

\* resp.output_text
ResponseTexts ==
    { JoinResponse(ls) : ls \in UNION { [1..n -> ResponseLines] : n \in 0..MaxQLines } }

\* what client_oai.responses.create does for the question prompt
QuestionOutcomes ==
    { [ok |-> TRUE, text |-> t, kind |-> "none"] : t \in ResponseTexts }
        \cup { [ok |-> FALSE, text |-> <<>>, kind |-> k] : k \in ExceptionKinds }

\* label_map.get(diff, ...)
LabelOf(diff) == IF diff = "easy" THEN "Easy question" ELSE "Medium question"

\* one pass of "for diff in difficulties" up to the first wait_for
QuestionCalls ==
    { [op |-> "round", difficulty |-> d, outcome |-> out,
       result |-> [raised |-> FALSE, question |-> <<>>, answer |-> <<>>,
                   explanation |-> <<>>],
       sent |-> <<>>, pc |-> "input"]
         : d \in { difficulties[i] : i \in DOMAIN difficulties },
           out \in QuestionOutcomes }

InitQuestion ==
    /\ text = <<>> /\ max_len = 0 /\ parts = <<>> /\ split_pc = "idle"
    /\ BotFresh
    /\ env = NoInputs
    /\ call \in QuestionCalls

\* question, answer, explanation = await generate_cs_question(diff)
GenerateQuestion ==
    /\ call.op = "round" /\ call.pc = "input"
    /\ LET res == generate_cs_question(call.difficulty, call.outcome)
       IN  call' = [call EXCEPT !.result = res,
                                !.pc = IF res.raised THEN "failed" ELSE "generated"]
    /\ UNCHANGED <<text, max_len, parts, split_pc>>
    /\ UNCHANGED <<histVars, botVars>>

\* await channel.send(label, question, "You have 10 seconds to answer.")
PostQuestion ==
    /\ call.op = "round" /\ call.pc = "generated"
    /\ call' = [call EXCEPT
          !.sent = <<LabelOf(call.difficulty), ":", NL>> \o call.result.question,
          !.pc = "posted"]
    /\ UNCHANGED <<text, max_len, parts, split_pc>>
    /\ UNCHANGED <<histVars, botVars>>

\* bot.wait_for("message", check=check, timeout=10) begins
AwaitAnswer ==
    /\ call.op = "round" /\ call.pc = "posted"
    /\ call' = [call EXCEPT !.pc = "await_answer"]
    /\ UNCHANGED <<text, max_len, parts, split_pc>>
    /\ UNCHANGED <<histVars, botVars>>

NextQuestion ==
    \/ GenerateQuestion
    \/ PostQuestion
    \/ AwaitAnswer

SpecQuestion == InitQuestion /\ [][NextQuestion]_vars

----------------------------------------------------------------------------
(* Properties of generate_cs_question, checked under SpecQuestion.         *)

\* the lines of the response generate_cs_question reads
ReadLines == SplitLines(Strip(call.outcome.text))

\* the response has a line with the question label, the explanation label
HasQuestionLine == \E i \in 1..Len(ReadLines) : HasPrefix(ReadLines[i], QuestionPrefixes)
HasExplanationLine ==
    \E i \in 1..Len(ReadLines) : HasPrefix(ReadLines[i], ExplanationPrefixes)

\* C27: question generation never fails the duel: a response without a
\* question line is used whole as the question, a response without an
\* explanation line gets the fixed placeholder sentence, a model call that
\* raises gives the fixed question with an empty canonical answer, and in
\* every case the round goes on to the wait for an answer.
C27_QuestionNeverFails ==
    call.op = "round" =>
        /\ call.pc # "failed"
        /\ call.pc = "generated" => ENABLED PostQuestion
        /\ call.pc = "posted" => ENABLED AwaitAnswer
        /\ call.pc # "input" =>
              /\ (call.outcome.ok /\ ~HasQuestionLine) =>
                    call.result.question = Strip(call.outcome.text)
              /\ (call.outcome.ok /\ ~HasExplanationLine) =>
                    call.result.explanation = NO_EXPLANATION_TEXT
              /\ ~call.outcome.ok =>
                    /\ call.result.question = NO_QUESTION_TEXT
                    /\ call.result.answer = <<>>
        /\ call.pc \in {"posted", "await_answer"} =>
              EndsWith(call.sent, call.result.question)

\* a round waits for an answer to a response that had an answer line but
\* neither a question line nor an explanation line
C27_Witness ==
    /\ call.op = "round" /\ call.pc = "await_answer"
    /\ call.outcome.ok
    /\ ~HasQuestionLine /\ ~HasExplanationLine
    /\ call.result.answer # <<>>
    /\ call.result.question = Strip(call.outcome.text)

----------------------------------------------------------------------------
(* Sequences of duels on the leaderboard file (src/bot.py 15-65, 574-576,  *)
(* 600-643): every duel that ends with points calls update_leaderboard     *)
(* once, and the write of each call succeeds or fails.                     *)

\* the most duels of a sequence
MaxSeason == 3

\* the scores a duel of Len(difficulties) rounds can end with: every user
\* in the map has a point, and a round gives at most one point
DuelScores ==
    { sc \in PartialFns(Users, 1..Len(difficulties)) :
          DOMAIN sc # {} /\ SumScores(sc, Users) <= Len(difficulties) }

\* the file after no duel: there is none
SeasonStart ==
    [op |-> "season", file |-> NoFile, before |-> NoFile, played |-> 0,
     write |-> "written", failed |-> FALSE, pc |-> "input"]

InitSeason ==
    /\ text = <<>> /\ max_len = 0 /\ parts = <<>> /\ split_pc = "idle"
    /\ BotFresh
    /\ env = NoInputs
    /\ call = SeasonStart

\* a duel of guild guild_id ends with the scores sc: update_leaderboard(
\* guild_id, scores, winners), whose write does w
SeasonDuel(guild_id, sc, w) ==
    /\ call.op = "season" /\ call.played < MaxSeason
    /\ call' = [call EXCEPT
          !.before = call.file,
          !.file = update_leaderboard_file(call.file, guild_id, sc,
                                           Winners(sc), w).file,
          !.played = @ + 1,
          !.write = w,
          !.failed = @ \/ w = "dump_raises",
          !.pc = "returned"]
    /\ UNCHANGED <<text, max_len, parts, split_pc>>
    /\ UNCHANGED <<histVars, botVars>>

NextSeason ==
    \E g \in { NoGuild, GuildOf(1) }, sc \in DuelScores, w \in WriteOutcomes :
        SeasonDuel(g, sc, w)

SpecSeason == InitSeason /\ [][NextSeason]_vars

----------------------------------------------------------------------------
(* Properties of the stored entries, checked under SpecSeason.             *)

\* the entry is one the XP rule can have produced
EntryInRange(e) ==
    /\ e.xp >= 0 /\ e.wins >= 0 /\ e.games >= 0
    /\ e.wins <= e.games
    /\ e.xp >= 10 * e.games + 20 * e.wins

\* every entry read from file f is in range
EntriesInRange(f) ==
    LET data == load_leaderboard(f)
    IN  \A g \in DOMAIN data : \A k \in DOMAIN data[g] : EntryInRange(data[g][k])

\* no counter of an entry read from file f is smaller in file f2
NoneDecreased(f, f2) ==
    LET old == load_leaderboard(f)
        new == load_leaderboard(f2)
    IN  \A g \in DOMAIN old : \A k \in DOMAIN old[g] :
            /\ g \in DOMAIN new /\ k \in DOMAIN new[g]
            /\ new[g][k].xp >= old[g][k].xp
            /\ new[g][k].wins >= old[g][k].wins
            /\ new[g][k].games >= old[g][k].games

\* C34: after any sequence of duels starting from an empty store, every
\* stored entry has xp >= 0, wins >= 0, games >= 0, wins <= games and
\* xp >= 10 * games + 20 * wins, and none of the three counters of any
\* user ever decreases.
C34_EntriesInRangeAndGrowing ==
    call.op = "season" =>
        /\ EntriesInRange(call.file)
        /\ NoneDecreased(call.before, call.file)

\* the same for the sequences in which no write has failed after the open
C34_InRangeAndGrowingIfWritten ==
    (call.op = "season" /\ ~call.failed) =>
        /\ EntriesInRange(call.file)
        /\ NoneDecreased(call.before, call.file)

----------------------------------------------------------------------------
(* Handlers whose awaited calls raise (src/bot.py 873-877, 946-949,        *)
(* 533-664).  Inside "async with lock" a handler awaits transport calls    *)
(* (channel.typing(), channel.send) and run_speedduel; an exception of one *)
(* of them leaves the "async with" block and ends the handler.             *)

\* one duel, one reply request and one other message on one channel
FaultInputs ==
    [chans |-> {1}, users |-> {11}, n |-> 1, near |-> 0, duel |-> 1,
     riddle |-> 0, other |-> 1, bot |-> 0]

InitFault ==
    /\ SplitIdle
    /\ BotFresh
    /\ env = FaultInputs

\* the awaits inside the guarded region at which an exception can arrive:
\* typing() and get_near_reply of a reply handler, and the sends (and what
\* runs before them) of run_speedduel
AwaitsInRegion(t) ==
    \/ t.kind = "n" /\ t.pc = "typing"
    \/ t.kind = "speedduel" /\ t.pc \in {"intro", "posted", "pause", "final"}

\* an exception that leaves the lock as it is
ReleaseOnRaiseNever(locks, c) == locks

\* the exception leaves "async with lock": __aexit__ releases the lock
ReleaseOnRaise(locks, c) == Release(locks, c)

\* the call handler h awaits inside the guarded region raises: the
\* exception leaves "async with lock" and the handler ends
Raise(h) ==
    /\ AwaitsInRegion(tasks[h])
    /\ locks_by_channel' = ReleaseOnRaise(locks_by_channel, tasks[h].chan)
    /\ tasks' = [tasks EXCEPT ![h].pc = "failed"]
    /\ UNCHANGED <<splitVars, histVars, outbox, leaderboard, env>>

NextFault ==
    \/ \E c \in Channels, u \in Users : OnMessageN(c, u)
    \/ \E c \in Channels, u \in Users : OnMessageSpeedduel(c, u)
    \/ \E c \in Channels, u \in Users, g \in Guesses : OnMessageOther(c, u, g)
    \/ ResumeNStep
    \/ ReplyNStep
    \/ SendNextStep
    \/ ResumeDuelStep
    \/ NextRoundStep
    \/ ListenStep
    \/ TickStep
    \/ TimeoutStep
    \/ GradeStep
    \/ FinalizeStep
    \/ EndDuelStep
    \/ \E h \in TaskIds : Raise(h)

SpecFault == InitFault /\ [][NextFault]_vars

\* C35: the channel lock is released whenever the handler holding it ends,
\* also when run_speedduel, get_near_reply or a transport call inside the
\* guarded region raises: in no reachable state is a channel's lock held
\* while no handler is inside its guarded region, so a failure of one
\* request never blocks the later requests of the channel: with the lock
\* free, the first waiting handler is the one that has been woken.
C35_LockReleasedOnFailure ==
    \A c \in Channels :
        LET lock == locks_by_channel[c]
        IN  /\ lock.locked =>
                  \E h \in TaskIds : tasks[h].chan = c /\ InGuardedRegion(h)
            /\ \A h \in TaskIds :
                  (tasks[h].chan = c /\ tasks[h].pc \in {"failed", "done"})
                      => ~InGuardedRegion(h)
            /\ (~lock.locked /\ lock.waiters # <<>>) => Woken(Head(lock.waiters))

\* a duel has ended with an exception while a reply request waited for the
\* lock: the lock is free and the request has been woken
C35_Witness ==
    \E h1 \in TaskIds, h2 \in TaskIds :
        /\ tasks[h1].chan = tasks[h2].chan
        /\ tasks[h1].kind = "speedduel" /\ tasks[h1].pc = "failed"
        /\ tasks[h2].kind = "n" /\ Woken(h2)

----------------------------------------------------------------------------
(* What the model is given for a text request (src/bot.py 858-859,         *)
(* 937-949, 679-725): the message is recorded when it is received, and     *)
(* get_near_reply reads the history after the awaits of the lock and of    *)
(* typing(), during which other messages of the channel are recorded.      *)

MaxAmbient == 40

\* one request and up to MaxAmbient other messages on one channel
AddressedInputs ==
    [chans |-> {1}, users |-> {11}, n |-> 1, near |-> 0, duel |-> 0,
     riddle |-> 0, other |-> MaxAmbient, bot |-> 0]

InitAddressed ==
    /\ SplitIdle
    /\ BotFresh
    /\ env = AddressedInputs

\* content[len(prefix):].strip() for the content "n <text>"
PlainUserText(content) == SubSeq(content, 3, Len(content))

\* the content of the message of request h
RequestContent(h) == <<"n", SP, h>>

\* the input get_near_reply gives the model for request h when it runs in
\* the current state
RequestInput(h) ==
    ModelInput(<<>>, LastEntries(history_by_channel[tasks[h].chan]),
               UserTurn(DisplayName(tasks[h].user), PlainUserText(RequestContent(h))))

NextAddressed ==
    \/ \E c \in Channels, u \in Users : OnMessageN(c, u)
    \/ \E c \in Channels, u \in Users : OnMessageOther(c, u, HASH)
    \/ ReplyNStep
    \/ SendNextStep

SpecAddressed == InitAddressed /\ [][NextAddressed]_vars

\* every stored turn is a context entry with role system or an assistant
\* turn
StoredRolesOnly(hists) ==
    \A c \in Channels : \A i \in 1..Len(hists[c]) :
        /\ hists[c][i].role \in {"system", "assistant"}
        /\ hists[c][i].role = "system" =>
              /\ Len(hists[c][i].content) = 4
              /\ hists[c][i].content[1] = "[Context]"
              /\ hists[c][i].content[3] = "said:"

\* the step in which get_near_reply runs for request h
ReplyStepOf(h) ==
    /\ tasks[h].kind = "n" /\ tasks[h].pc = "typing"
    /\ tasks'[h].pc # "typing"

\* the context entry recorded for request h
OwnContext(h) == ContextTurn(DisplayName(tasks[h].user), RequestContent(h))

\* the positions of the context entries of a list of turns
ContextPositions(hist) == { i \in 1..Len(hist) : hist[i].role = "system" }

\* the last context entry of the list is the turn
LatestContextIs(hist, turn) ==
    /\ ContextPositions(hist) # {}
    /\ LET last == CHOOSE i \in ContextPositions(hist) :
                       \A k \in ContextPositions(hist) : k <= i
       IN  hist[last] = turn

\* the model input ends with the user turn "<name>: <text>" of request h
EndsWithUserTurn(h) ==
    LET inp == RequestInput(h)
        last == inp[Len(inp)]
    IN  /\ last.role = "user"
        /\ last.content =
              <<DisplayName(tasks[h].user), ":", SP>> \o PlainUserText(RequestContent(h))

\* every stored turn has role system (a "[Context] <name> said: <text>"
\* entry) or role assistant, the user turn is never stored, and the model
\* input of a text request holds the addressed message as the latest
\* context entry of its history and as the user turn
C36_AddressedTwiceLatest ==
    [][ /\ StoredRolesOnly(history_by_channel')
        /\ \A h \in DOMAIN tasks :
              ReplyStepOf(h) =>
                  /\ EndsWithUserTurn(h)
                  /\ LatestContextIs(LastEntries(history_by_channel[tasks[h].chan]),
                                     OwnContext(h)) ]_vars

\* C36: every turn stored in a channel's history has role system (a
\* "[Context] <name> said: <text>" entry) or role assistant, and the user
\* turn "<name>: <text>" passed to the model is never stored.  The model
\* input of a text request ends with the user turn, which holds the text
\* after the "n " prefix; the history part of the input holds the context
\* entry of the whole message, recorded when the message was received, if
\* fewer than 40 turns have been stored on the channel since, and does not
\* hold it otherwise; that entry is the latest context entry of the input
\* exactly when no other message was recorded between the reception of the
\* request and its model call.
C36_AddressedInInput ==
    [][ /\ StoredRolesOnly(history_by_channel')
        /\ \A h \in DOMAIN tasks :
              ReplyStepOf(h) =>
                  LET c == tasks[h].chan
                      hist == LastEntries(history_by_channel[c])
                      log == appended[c]
                      p == CHOOSE i \in 1..Len(log) : log[i] = OwnContext(h)
                      since == Len(log) - p
                      ambient == { k \in (p + 1)..Len(log) : log[k].role = "system" }
                  IN  /\ EndsWithUserTurn(h)
                      /\ PlainUserText(RequestContent(h)) # RequestContent(h)
                      /\ \E i \in 1..Len(log) : log[i] = OwnContext(h)
                      /\ since < HistoryLimit =>
                            /\ Len(hist) > since
                            /\ hist[Len(hist) - since] = OwnContext(h)
                      /\ since >= HistoryLimit =>
                            \A i \in 1..Len(hist) : hist[i] # OwnContext(h)
                      /\ LatestContextIs(hist, OwnContext(h)) <=> ambient = {}
                      /\ history_by_channel'[c][Len(history_by_channel'[c])].role
                            = "assistant"
                      /\ SubSeq(history_by_channel'[c], 1,
                                Len(history_by_channel'[c]) - 1) = hist ]_vars

\* a request has been answered after another message was recorded behind
\* it and after the history was cut: the history holds the context entry
\* of the request, the other message's entry, and the reply as last turn
C36_Witness ==
    \E h \in TaskIds :
        LET c == tasks[h].chan
            hist == history_by_channel[c]
        IN  /\ tasks[h].kind = "n" /\ tasks[h].pc = "done"
            /\ Len(appended[c]) > HistoryLimit
            /\ hist[Len(hist)].role = "assistant"
            /\ \E i \in 1..(Len(hist) - 2) :
                  /\ hist[i] = OwnContext(h)
                  /\ hist[i + 1].role = "system"
            /\ StoredRolesOnly(history_by_channel)

============================================================================
